---------------------------- MODULE Spec2Model ----------------------------
(***************************************************************************)
(* ZenCube process sandbox supervisors.                                    *)
(*                                                                         *)
(*   Spec    models sandbox.c    (options --cpu= --mem= --procs= --fsize=  *)
(*           --jail= --no-net --help; fork / enforce / exec / waitpid).   *)
(*   SpecV2  models sandbox_v2.c (--cpu --mem --timeout --json; the        *)
(*           polling wait with a wall-clock timeout and the JSON result).  *)
(*   SpecFilter models the kernel running the seccomp filter program that  *)
(*           sandbox.c installs for --no-net, on one system call.          *)
(*                                                                         *)
(* Command-line tokens are sequences of one-character strings, so that the *)
(* prefix tests (strncmp) and the numeric conversion (atoi / atol) are     *)
(* computed the way the C code computes them.  The argument vector argv    *)
(* holds argv[1..argc-1]; C index i is TLA+ index i.                       *)
(***************************************************************************)
EXTENDS Integers, Sequences, FiniteSets, TLC

VARIABLES
    \* ---- sandbox.c ----
    argv,             \* argv[1..argc-1], each token a sequence of characters
    pc,               \* supervisor position in main
    limits,           \* ResourceLimits
    jail_enabled,     \* int flag set by --jail=
    disable_network,  \* int flag set by --no-net
    jail_path,        \* char jail_path[PATH_MAX]
    cmd_start_index,  \* index of the first token of the target command
    start_ok,         \* clock_gettime(start_time) succeeded
    execution_time,   \* double execution_time, see ElapsedValues
    child,            \* child process position
    child_root,       \* root directory of the child: "host" or "jail"
    trace,            \* system calls made by the child, in order
    zstatus,          \* status word the kernel holds for the child (NoStatus while it runs)
    status,           \* int status written by waitpid (NoStatus before)
    ret,              \* exit code of the supervisor process (NoRet while running)
    log,              \* records written by supervisor and child, in order
    calls,            \* clock, fork and wait calls of the supervisor, in order
    cpu_expired,      \* the kernel ended the target at its RLIMIT_CPU
    \* ---- sandbox_v2.c ----
    config,           \* sandbox_config_t
    result,           \* sandbox_result_t
    pc2,              \* supervisor position in main / run_sandbox
    start_ok2,        \* clock_gettime(start_time) succeeded
    child2,           \* child process position
    trace2,           \* system calls made by the child, in order
    zstatus2,         \* status word the kernel holds for the terminated child
    status2,          \* int status of run_sandbox (NoStatus while not written)
    timeout_count,    \* loop counter of the polling wait
    wait_result,      \* last value returned by waitpid(WNOHANG)
    killed2,          \* SIGKILL has been sent to the child
    ret2,             \* exit code of the supervisor process (NoRet while running)
    log2,             \* records written by supervisor and child, in order
    json2,            \* the objects log_json_result has written
    calls2,           \* clock, fork, wait and kill calls of the supervisor, in order
    cbuf2,            \* the child's copy of the records that were in the stdio
                      \* buffer of standard output when fork was called
    \* ---- the seccomp filter of sandbox.c, run by the kernel ----
    sys_nr,           \* seccomp_data.nr of the system call under evaluation
    bpf_pc,           \* index of the next instruction of filter_program
    bpf_A,            \* accumulator of the BPF machine
    bpf_ret,          \* value the filter returned (NoVerdict while it runs)
    \* ---- the monitor (sampler, log writer and log rotation) ----
    m_files,          \* every log file created so far, oldest first: place, content
    m_active,         \* index of the file of the attached session, 0 when detached
    m_clock,          \* the clock the sampler stamps its records with
    m_keep,           \* retention count N of the rotation
    m_report,         \* what rotate_logs returned in the last step (NoReport
                      \* when the last step did not call it)
    \* ---- helper functions of sandbox.c applied to their arguments ----
    h_call,           \* the function called and its arguments
    h_result          \* what it returned (NoResult while it has not)

vars1 == <<argv, pc, limits, jail_enabled, disable_network, jail_path,
           cmd_start_index, start_ok, execution_time, child, child_root,
           trace, zstatus, status, ret, log, calls, cpu_expired>>
vars2 == <<config, result, pc2, start_ok2, child2, trace2, zstatus2, status2,
           timeout_count, wait_result, killed2, ret2, log2, json2, calls2, cbuf2>>
varsF == <<sys_nr, bpf_pc, bpf_A, bpf_ret>>
varsM == <<m_files, m_active, m_clock, m_keep, m_report>>
varsH == <<h_call, h_result>>
vars == <<vars1, vars2, varsF, varsM, varsH>>

---------------------------------------------------------------------------
(* Bounds of the model *)

\* Longest option prefix of an argument vector that is explored.
MaxOpts == 2
\* Stands for sizeof(jail_path) = PATH_MAX: the jail buffer size, scaled down.
JailPathSize == 4
\* Largest --timeout value explored for sandbox_v2.
MaxTimeout == 2

(* Program constants *)
EXIT_SUCCESS == 0
EXIT_FAILURE == 1
SIGKILL == 9
SIGXCPU == 24
SIGXFSZ == 25
\* "the process has not exited": no value of an exit code
NoRet == 0 - 1
\* an int status that waitpid has not written
NoStatus == 0 - 1

---------------------------------------------------------------------------
(* Characters and tokens *)

Digits == <<"0", "1", "2", "3", "4", "5", "6", "7", "8", "9">>
IsDigit(c) == \E d \in 1..10 : Digits[d] = c
DigitVal(c) == (CHOOSE d \in 1..10 : Digits[d] = c) - 1
IsSpace(c) == c \in {" ", "\t", "\n"}

\* strncmp(tok, prefix, strlen(prefix)) == 0
StartsWith(tok, prefix) ==
    /\ Len(tok) >= Len(prefix)
    /\ SubSeq(tok, 1, Len(prefix)) = prefix
\* tok + n: the token without its first n characters
Skip(tok, n) == SubSeq(tok, n + 1, Len(tok))

P_cpu   == <<"-", "-", "c", "p", "u", "=">>
P_mem   == <<"-", "-", "m", "e", "m", "=">>
P_procs == <<"-", "-", "p", "r", "o", "c", "s", "=">>
P_fsize == <<"-", "-", "f", "s", "i", "z", "e", "=">>
P_jail  == <<"-", "-", "j", "a", "i", "l", "=">>
T_nonet == <<"-", "-", "n", "o", "-", "n", "e", "t">>
T_help  == <<"-", "-", "h", "e", "l", "p">>
T_dashdash == <<"-", "-">>

\* atoi / atol: skip white space, an optional sign, then the leading digits;
\* conversion stops at the first character that is not a digit, and a string
\* without leading digits converts to 0.
RECURSIVE AtoiDigits(_, _, _)
AtoiDigits(s, i, acc) ==
    IF i > Len(s) \/ ~IsDigit(s[i]) THEN acc
    ELSE AtoiDigits(s, i + 1, acc * 10 + DigitVal(s[i]))
RECURSIVE AtoiFrom(_, _)
AtoiFrom(s, i) ==
    IF i > Len(s) THEN 0
    ELSE IF IsSpace(s[i]) THEN AtoiFrom(s, i + 1)
    ELSE IF s[i] = "-" THEN 0 - AtoiDigits(s, i + 1, 0)
    ELSE IF s[i] = "+" THEN AtoiDigits(s, i + 1, 0)
    ELSE AtoiDigits(s, i, 0)
atoi(s) == AtoiFrom(s, 1)

---------------------------------------------------------------------------
(* sandbox.c: parse_arguments *)

NoLimits == [cpu_seconds |-> 0, memory_mb |-> 0, max_processes |-> 0, max_file_mb |-> 0]

\* The state parse_arguments works on: the out-parameters, the loop index i,
\* and how the function ended: "loop" (still parsing), "ok" (return 0),
\* "fail" (return -1) or "help" (exit(EXIT_SUCCESS) inside the parser).
ParseStart ==
    [limits |-> NoLimits, jail_enabled |-> 0, disable_network |-> 0,
     jail_path |-> <<>>, cmd_start_index |-> 0, i |-> 1, end |-> "loop",
     diag |-> "none"]

ParseFail(st, d) == [st EXCEPT !.end = "fail", !.diag = d]

\* Mutant: an unknown option is skipped instead of failing the parse.
UnknownOption_Ignored(st) == [st EXCEPT !.i = st.i + 1]

\* lines 181-184: an option that is none of the above
UnknownOption(st) == ParseFail(st, "Unknown option")

\* Mutant: --help is stepped over like a flag without effect.
HelpOption_SteppedOver(st) == [st EXCEPT !.i = st.i + 1]

\* lines 130-132: --help prints the usage and calls exit(EXIT_SUCCESS)
HelpOption(st) == [st EXCEPT !.end = "help"]

\* One iteration of the while loop at argv[st.i].
ParseOption(args, st) ==
    LET tok == args[st.i]
        next(s) == [s EXCEPT !.i = st.i + 1]
    IN  IF tok = T_dashdash
          THEN [st EXCEPT !.i = st.i + 1, !.end = "ok", !.cmd_start_index = st.i + 1]
        ELSE IF tok = T_help
          THEN HelpOption(st)
        ELSE IF StartsWith(tok, P_cpu)
          THEN LET v == atoi(Skip(tok, 6))
                   s == [st EXCEPT !.limits.cpu_seconds = v]
               IN  IF v < 0 THEN ParseFail(s, "Invalid CPU limit") ELSE next(s)
        ELSE IF StartsWith(tok, P_mem)
          THEN LET v == atoi(Skip(tok, 6))
                   s == [st EXCEPT !.limits.memory_mb = v]
               IN  IF v < 0 THEN ParseFail(s, "Invalid memory limit") ELSE next(s)
        ELSE IF StartsWith(tok, P_procs)
          THEN LET v == atoi(Skip(tok, 8))
                   s == [st EXCEPT !.limits.max_processes = v]
               IN  IF v < 0 THEN ParseFail(s, "Invalid process limit") ELSE next(s)
        ELSE IF StartsWith(tok, P_fsize)
          THEN LET v == atoi(Skip(tok, 8))
                   s == [st EXCEPT !.limits.max_file_mb = v]
               IN  IF v < 0 THEN ParseFail(s, "Invalid file size limit") ELSE next(s)
        ELSE IF StartsWith(tok, P_jail)
          THEN LET path_arg == Skip(tok, 7)
                   path_len == Len(path_arg)
               IN  IF path_len = 0
                     THEN ParseFail(st, "--jail requires a non-empty path")
                   ELSE IF path_len >= JailPathSize
                     THEN ParseFail(st, "Jail path is too long")
                   ELSE next([st EXCEPT !.jail_path = path_arg, !.jail_enabled = 1])
        ELSE IF tok = T_nonet
          THEN next([st EXCEPT !.disable_network = 1])
        ELSE UnknownOption(st)

\* while (i < argc && argv[i][0] == '-') { ... }  *cmd_start_index = i; return 0;
RECURSIVE ParseLoop(_, _)
ParseLoop(args, st) ==
    IF st.end # "loop" THEN st
    ELSE IF st.i <= Len(args) /\ Len(args[st.i]) > 0 /\ args[st.i][1] = "-"
      THEN ParseLoop(args, ParseOption(args, st))
    ELSE [st EXCEPT !.end = "ok", !.cmd_start_index = st.i]

parse_arguments(args) == ParseLoop(args, ParseStart)

---------------------------------------------------------------------------
(* Wait status words (the encoding read by the <sys/wait.h> macros) *)

W_EXITCODE(code, sig) == code * 256 + sig
W_STOPCODE(sig) == sig * 256 + 127
WTERMSIG(st) == st % 128
WIFEXITED(st) == WTERMSIG(st) = 0
WEXITSTATUS(st) == (st \div 256) % 256
WIFSIGNALED(st) == WTERMSIG(st) \in 1..126
WIFSTOPPED(st) == st % 256 = 127
WCOREDUMP(st) == (st \div 128) % 2 = 1

\* Exit codes a target is run with.
ExitCodes == {0, 1, 255}
\* Status words a wait on the running target can report: a normal exit, a
\* kill by SIGKILL / SIGXCPU / SIGXFSZ, SIGSEGV (11) with a core dump, a stop
\* by SIGSTOP (19) and a word none of the macros recognises (0xffff).
TargetStatuses ==
    {W_EXITCODE(k, 0) : k \in ExitCodes}
      \cup {SIGKILL, SIGXCPU, SIGXFSZ, 11 + 128, W_STOPCODE(19), 65535}

---------------------------------------------------------------------------
(* Records written to the standard streams *)

Rec(who, fd, msg) == [who |-> who, fd |-> fd, msg |-> msg]
SupOut(msg) == Rec("sup", "stdout", msg)
SupErr(msg) == Rec("sup", "stderr", msg)
ChildOut(msg) == Rec("child", "stdout", msg)
ChildErr(msg) == Rec("child", "stderr", msg)

---------------------------------------------------------------------------
(* sandbox.c: the input space *)

T_ls == <<"l", "s">>
T_unknown == <<"-", "x">>

\* Option tokens: for each numeric option a valid, a negative and a
\* non-numeric (or empty) value; the three kinds of jail path; the flags.
OptionPool ==
    { P_cpu \o <<"2">>, P_cpu \o <<"-", "1">>, P_cpu \o <<"a", "b", "c">>,
      P_mem \o <<"1">>, P_mem \o <<"-", "1">>, P_mem,
      P_procs \o <<"1">>, P_procs \o <<"-", "1">>,
      P_fsize \o <<"1">>, P_fsize \o <<"-", "1">>,
      P_jail \o <<"/", "j">>, P_jail, P_jail \o <<"/", "j", "j", "j", "j">>,
      T_nonet, T_help, T_unknown }

\* What follows the options: nothing, a target, a target with an argument
\* that looks like an option, a bare -- before a target that begins with '-',
\* and a bare -- with nothing after it.
Tails ==
    { <<>>, <<T_ls>>, <<T_ls, T_help>>, <<T_dashdash, T_unknown, T_ls>>,
      <<T_dashdash>> }

SeqsUpTo(S, n) == UNION {[1..k -> S] : k \in 0..n}
ArgVectors == {o \o t : o \in SeqsUpTo(OptionPool, MaxOpts), t \in Tails}

---------------------------------------------------------------------------
(* sandbox.c: helpers of main *)

\* log_resource_limits: the policy echoed on standard output.
log_resource_limits(lim) ==
    IF lim.cpu_seconds > 0 \/ lim.memory_mb > 0
         \/ lim.max_processes > 0 \/ lim.max_file_mb > 0
      THEN <<SupOut("Active resource limits:")>>
             \o (IF lim.cpu_seconds > 0 THEN <<SupOut("  CPU Time")>> ELSE <<>>)
             \o (IF lim.memory_mb > 0 THEN <<SupOut("  Memory")>> ELSE <<>>)
             \o (IF lim.max_processes > 0 THEN <<SupOut("  Processes")>> ELSE <<>>)
             \o (IF lim.max_file_mb > 0 THEN <<SupOut("  File Size")>> ELSE <<>>)
      ELSE <<SupOut("No resource limits applied (unlimited)")>>

\* What the file system answers about the jail path: realpath's result
\* (NullPath when it fails: the path itself, or the directory a symbolic
\* link leads to), and whether stat, S_ISDIR and access(X_OK) succeed.
NullPath == <<>>
Resolved(path) == {NullPath, path, <<"/", "r">>}
JailEnvs(path) ==
    [resolved : Resolved(path), stat_ok : BOOLEAN, is_dir : BOOLEAN,
     x_ok : BOOLEAN]

\* The checks of the jail validation in main, in source order.
JailChecks(path, env) ==
    IF env.resolved = NullPath
      THEN [rc |-> -1, path |-> path, msg |-> SupErr("Unable to resolve jail path")]
    ELSE IF ~env.stat_ok
      THEN [rc |-> -1, path |-> env.resolved, msg |-> SupErr("Cannot stat jail path")]
    ELSE IF ~env.is_dir
      THEN [rc |-> -1, path |-> env.resolved, msg |-> SupErr("Jail path is not a directory")]
    ELSE IF ~env.x_ok
      THEN [rc |-> -1, path |-> env.resolved, msg |-> SupErr("Jail path is not accessible")]
    ELSE [rc |-> 0, path |-> env.resolved, msg |-> SupOut("Jail requested")]

\* Mutant: a failed check is reported but main does not return.
validate_jail_NoReturn(path, env) == [JailChecks(path, env) EXCEPT !.rc = 0]

\* The jail validation of main: rc 0 and the canonical path, or the
\* diagnostic with which main returns EXIT_FAILURE.
validate_jail(path, env) == JailChecks(path, env)

\* setup_chroot_jail: chdir(jail), chroot("."), chdir("/"); fails names the
\* calls the kernel refuses.  No statement of main calls this function.
ChrootCall(name, arg, ok) == [call |-> name, arg |-> arg, ok |-> ok]
JailSteps ==
    << [call |-> "chdir_jail", arg |-> "jail_path"],
       [call |-> "chroot", arg |-> "."],
       [call |-> "chdir_root", arg |-> "/"] >>

\* Mutant: a step that fails does not end the function; the later steps
\* run and the function returns 0.
RECURSIVE JailFrom_NoEarlyReturn(_, _, _)
JailFrom_NoEarlyReturn(k, fails, acc) ==
    IF k > Len(JailSteps) THEN [acc EXCEPT !.rc = 0]
    ELSE LET st == JailSteps[k]
             ok == st.call \notin fails
         IN  JailFrom_NoEarlyReturn(k + 1, fails,
               [rc |-> 0,
                root |-> IF st.call = "chroot" /\ ok THEN "jail" ELSE acc.root,
                calls |-> Append(acc.calls, ChrootCall(st.call, st.arg, ok))])

\* The three steps from step k on: the first that fails returns -1.
RECURSIVE JailFrom(_, _, _)
JailFrom(k, fails, acc) ==
    IF k > Len(JailSteps) THEN [acc EXCEPT !.rc = 0]
    ELSE LET st == JailSteps[k]
         IN  IF st.call \in fails
               THEN [rc |-> -1, root |-> acc.root,
                     calls |-> Append(acc.calls, ChrootCall(st.call, st.arg, FALSE))]
               ELSE JailFrom(k + 1, fails,
                      [rc |-> 0,
                       root |-> IF st.call = "chroot" THEN "jail" ELSE acc.root,
                       calls |-> Append(acc.calls, ChrootCall(st.call, st.arg, TRUE))])

setup_chroot_jail_NoEarlyReturn(fails) ==
    JailFrom_NoEarlyReturn(1, fails, [rc |-> 0, root |-> "host", calls |-> <<>>])

setup_chroot_jail(fails) ==
    JailFrom(1, fails, [rc |-> 0, root |-> "host", calls |-> <<>>])

\* A long and an rlim_t are 64 bits wide: four 16-bit limbs, lowest first.
LimbBase == 65536
\* the long with the value of a small integer n >= 0
IntToLong(n) == <<n % LimbBase, n \div LimbBase, 0, 0>>
\* the value of an rlim_t below 2^31
RlimToInt(x) == x[1] + x[2] * LimbBase
\* x * k on w limbs, for a small k: the carry out of the highest limb is lost
RECURSIVE MulLimbs(_, _, _, _)
MulLimbs(x, k, i, carry) ==
    IF i > Len(x) THEN <<>>
    ELSE LET p == x[i] * k + carry
         IN  <<p % LimbBase>> \o MulLimbs(x, k, i + 1, p \div LimbBase)

\* Mutant: the product is computed in a 32-bit rlim_t.
MbToRlim_Narrow(mb) ==
    LET y == MulLimbs(MulLimbs(SubSeq(mb, 1, 2), 1024, 1, 0), 1024, 1, 0)
    IN  y \o <<0, 0>>

\* (rlim_t)mb * 1024 * 1024, for a long mb >= 0
MbToRlim(mb) == MulLimbs(MulLimbs(mb, 1024, 1, 0), 1024, 1, 0)

\* The same for the small values the supervisor model runs with.
MbToBytes(mb) == RlimToInt(MbToRlim(IntToLong(mb)))

\* The four blocks of apply_resource_limits, in source order: the kernel
\* resource, the policy field, the value handed to setrlimit, the records.
LimitSteps(lim) ==
    << [res |-> "RLIMIT_CPU", field |-> lim.cpu_seconds,
        value |-> lim.cpu_seconds,
        err |-> "Failed to set CPU limit", ok |-> "CPU limit set"],
       [res |-> "RLIMIT_AS", field |-> lim.memory_mb,
        value |-> MbToBytes(lim.memory_mb),
        err |-> "Failed to set memory limit", ok |-> "Memory limit set"],
       [res |-> "RLIMIT_NPROC", field |-> lim.max_processes,
        value |-> lim.max_processes,
        err |-> "Failed to set process limit", ok |-> "Process limit set"],
       [res |-> "RLIMIT_FSIZE", field |-> lim.max_file_mb,
        value |-> MbToBytes(lim.max_file_mb),
        err |-> "Failed to set file size limit", ok |-> "File size limit set"] >>

Resources == {"RLIMIT_CPU", "RLIMIT_AS", "RLIMIT_NPROC", "RLIMIT_FSIZE"}

\* Mutant: the hard limit is left above the soft limit.
SetrlimitCall_HardAbove(res, cur, max, ok) ==
    [call |-> "setrlimit", res |-> res, cur |-> cur, max |-> max + 1, ok |-> ok]

SetrlimitCall(res, cur, max, ok) ==
    [call |-> "setrlimit", res |-> res, cur |-> cur, max |-> max, ok |-> ok]

\* apply_resource_limits from block k on; failing is the set of resources
\* on which the kernel refuses setrlimit.  The first failure returns -1.
RECURSIVE ApplyLimitsFrom(_, _, _, _)
ApplyLimitsFrom(steps, k, failing, acc) ==
    IF k > Len(steps) THEN [acc EXCEPT !.rc = 0]
    ELSE LET b == steps[k]
         IN  IF b.field > 0
               THEN IF b.res \in failing
                      THEN [rc |-> -1,
                            calls |-> Append(acc.calls,
                                         SetrlimitCall(b.res, b.value, b.value, FALSE)),
                            msgs |-> Append(acc.msgs, ChildErr(b.err))]
                      ELSE ApplyLimitsFrom(steps, k + 1, failing,
                             [rc |-> 0,
                              calls |-> Append(acc.calls,
                                          SetrlimitCall(b.res, b.value, b.value, TRUE)),
                              msgs |-> Append(acc.msgs, ChildOut(b.ok))])
               ELSE ApplyLimitsFrom(steps, k + 1, failing, acc)

\* Mutant: a setrlimit that fails is not fatal; every block runs and the
\* function returns 0.
apply_resource_limits_Continues(lim, failing) ==
    LET r == ApplyLimitsFrom(LimitSteps(lim), 1, {},
                             [rc |-> 0, calls |-> <<>>, msgs |-> <<>>])
    IN  [r EXCEPT !.calls = [i \in DOMAIN r.calls |->
                               [r.calls[i] EXCEPT !.ok = r.calls[i].res \notin failing]]]

apply_resource_limits(lim, failing) ==
    ApplyLimitsFrom(LimitSteps(lim), 1, failing,
                    [rc |-> 0, calls |-> <<>>, msgs |-> <<>>])

\* How the installation of the network filter can end: both prctl calls
\* succeed, the first fails, the second fails, or the build has no seccomp.
SeccompEnvs == {"ok", "no_new_privs_fails", "seccomp_fails", "not_linux"}

PrctlCall(op, ok) == [call |-> "prctl", op |-> op, ok |-> ok]

\* Mutant: the result of the second prctl call is not checked.
apply_network_seccomp_Unchecked(env) ==
    IF env = "not_linux" THEN [rc |-> -1, calls |-> <<>>]
    ELSE IF env = "no_new_privs_fails"
      THEN [rc |-> -1, calls |-> <<PrctlCall("PR_SET_NO_NEW_PRIVS", FALSE)>>]
    ELSE [rc |-> 0, calls |-> <<PrctlCall("PR_SET_NO_NEW_PRIVS", TRUE),
                                PrctlCall("PR_SET_SECCOMP", env = "ok")>>]

apply_network_seccomp(env) ==
    IF env = "not_linux" THEN [rc |-> -1, calls |-> <<>>]
    ELSE IF env = "no_new_privs_fails"
      THEN [rc |-> -1, calls |-> <<PrctlCall("PR_SET_NO_NEW_PRIVS", FALSE)>>]
    ELSE IF env = "seccomp_fails"
      THEN [rc |-> -1, calls |-> <<PrctlCall("PR_SET_NO_NEW_PRIVS", TRUE),
                                   PrctlCall("PR_SET_SECCOMP", FALSE)>>]
    ELSE [rc |-> 0, calls |-> <<PrctlCall("PR_SET_NO_NEW_PRIVS", TRUE),
                                PrctlCall("PR_SET_SECCOMP", TRUE)>>]

\* The values double execution_time can hold: a difference of two read
\* timestamps, a difference computed from a start_time that was never
\* written (any value, negative or not), and the -1.0 of a failed end read.
ElapsedValues ==
    {"unset", "measured", "unread_start_nonneg", "unread_start_neg", "minus_one"}
ElapsedNonNeg(t) == t \in {"measured", "unread_start_nonneg"}

\* The if / else-if chain over the status word in the parent branch of
\* main: the value main returns and the records it logs.
ClassifyBranches(st, lim, et) ==
    LET time(msg) == IF ElapsedNonNeg(et) THEN <<SupOut(msg)>> ELSE <<>>
    IN  IF WIFEXITED(st)
          THEN [ret |-> WEXITSTATUS(st),
                msgs |-> <<SupOut("Process exited normally")>>
                           \o time("Execution time")]
        ELSE IF WIFSIGNALED(st)
          THEN [ret |-> EXIT_FAILURE,
                msgs |-> <<SupOut("Process terminated by signal")>>
                  \o (IF WTERMSIG(st) = SIGXCPU
                        THEN <<SupOut("RESOURCE LIMIT VIOLATED: CPU time limit exceeded"),
                               SupOut("The process used more CPU time than allowed")>>
                      ELSE IF WTERMSIG(st) = SIGKILL
                        THEN <<SupOut("Process was killed (possibly by memory limit)")>>
                               \o (IF lim.memory_mb > 0
                                     THEN <<SupOut("Memory limit was set")>> ELSE <<>>)
                      ELSE IF WTERMSIG(st) = SIGXFSZ
                        THEN <<SupOut("RESOURCE LIMIT VIOLATED: File size limit exceeded")>>
                               \o (IF lim.max_file_mb > 0
                                     THEN <<SupOut("File size limit was set")>> ELSE <<>>)
                      ELSE <<>>)
                  \o time("Execution time before termination")
                  \o (IF WCOREDUMP(st) THEN <<SupOut("Core dump was created")>> ELSE <<>>)]
        ELSE IF WIFSTOPPED(st)
          THEN [ret |-> EXIT_FAILURE, msgs |-> <<SupOut("Process stopped by signal")>>]
        ELSE [ret |-> EXIT_FAILURE,
              msgs |-> <<SupOut("Process ended with unknown status")>>]

\* Mutant: a non-zero exit code of the child is reported as EXIT_FAILURE.
ClassifyStatus_CollapsesExit(st, lim, et) ==
    LET c == ClassifyBranches(st, lim, et)
    IN  [c EXCEPT !.ret = IF WIFEXITED(st) /\ @ # 0 THEN EXIT_FAILURE ELSE @]

\* Mutant: the stopped and the unknown branch do not return, and main
\* falls through to its final return EXIT_SUCCESS.
ClassifyStatus_FallsThrough(st, lim, et) ==
    LET c == ClassifyBranches(st, lim, et)
    IN  [c EXCEPT !.ret = IF WIFEXITED(st) \/ WIFSIGNALED(st) THEN @ ELSE EXIT_SUCCESS]

\* Mutant: main returns EXIT_SUCCESS for every child that exited normally.
ClassifyStatus_ExitIsSuccess(st, lim, et) ==
    LET c == ClassifyBranches(st, lim, et)
    IN  [c EXCEPT !.ret = IF WIFEXITED(st) THEN EXIT_SUCCESS ELSE @]

\* The classification of the status word in the parent branch of main.
ClassifyStatus(st, lim, et) == ClassifyBranches(st, lim, et)

---------------------------------------------------------------------------
(* Calls of a supervisor on the clock and on its child, with the value    *)
(* returned: 0 / -1, and for fork and waitpid the pid (1), 0 or -1         *)

SupCall(name, arg, r) == [call |-> name, arg |-> arg, ret |-> r]
ClockRead(which, ok) == SupCall("clock_gettime", which, IF ok THEN 0 ELSE -1)


\* sandbox.c lines 387-392, sandbox_v2.c lines 264-280: the start time
\* is read, then fork is called.
StartCalls(clock_ok, fork_ok) ==
    << ClockRead("start_time", clock_ok),
       SupCall("fork", "none", IF fork_ok THEN 1 ELSE -1) >>

\* sandbox.c lines 439-442: the blocking waitpid, then the end time is read.
EndCalls(wait_ok, clock_ok) ==
    << SupCall("waitpid", "block", IF wait_ok THEN 1 ELSE -1),
       ClockRead("end_time", clock_ok) >>

---------------------------------------------------------------------------
(* sandbox.c: main *)

\* Mutant: only the program name is handed to execvp, not its arguments.
TargetVector_ProgramOnly == SubSeq(argv, cmd_start_index, cmd_start_index)

\* The target vector: &argv[cmd_start_index]
TargetVector == SubSeq(argv, cmd_start_index, Len(argv))

\* main, lines 336-349: parse the arguments; usage and exit on --help, on a
\* parse error and on a missing command.
Main_Parse ==
    /\ pc = "start"
    /\ LET p == parse_arguments(argv)
       IN  /\ limits' = p.limits
           /\ jail_enabled' = p.jail_enabled
           /\ disable_network' = p.disable_network
           /\ jail_path' = p.jail_path
           /\ cmd_start_index' = p.cmd_start_index
           /\ IF p.end = "help"
                THEN /\ log' = log \o <<SupOut("Usage")>>
                     /\ ret' = EXIT_SUCCESS
                     /\ pc' = "exited"
              ELSE IF p.end = "fail"
                THEN /\ log' = log \o <<SupErr(p.diag), SupOut("Usage")>>
                     /\ ret' = EXIT_FAILURE
                     /\ pc' = "exited"
              ELSE IF p.cmd_start_index >= Len(argv) + 1
                THEN /\ log' = log \o <<SupErr("No command specified"), SupOut("Usage")>>
                     /\ ret' = EXIT_FAILURE
                     /\ pc' = "exited"
              ELSE /\ log' = log
                   /\ ret' = ret
                   /\ pc' = "parsed"
    /\ UNCHANGED <<argv, calls, cpu_expired, start_ok, execution_time, child, child_root, trace,
                   zstatus, status, vars2, varsF, varsM, varsH>>

\* main, lines 352-381: echo the policy, then validate the jail path.
Main_Validate ==
    /\ pc = "parsed"
    /\ LET echo == log_resource_limits(limits)
                     \o (IF disable_network # 0
                           THEN <<SupOut("Network restriction requested (--no-net)")>>
                           ELSE <<>>)
       IN  IF jail_enabled # 0
             THEN \E env \in JailEnvs(jail_path) :
                    LET v == validate_jail(jail_path, env)
                    IN  /\ jail_path' = v.path
                        /\ log' = log \o echo \o <<v.msg>>
                        /\ IF v.rc # 0
                             THEN ret' = EXIT_FAILURE /\ pc' = "exited"
                             ELSE ret' = ret /\ pc' = "validated"
             ELSE /\ log' = log \o echo
                  /\ pc' = "validated"
                  /\ UNCHANGED <<jail_path, ret>>
    /\ UNCHANGED <<argv, calls, cpu_expired, limits, jail_enabled, disable_network, cmd_start_index,
                   start_ok, execution_time, child, child_root, trace,
                   zstatus, status, vars2, varsF, varsM, varsH>>

\* main, lines 384-399 and 436: log the command, read the start time, fork;
\* the parent announces the child and blocks in waitpid.
Main_Fork ==
    /\ pc = "validated"
    /\ \E clock_ok \in BOOLEAN, fork_ok \in BOOLEAN :
         /\ start_ok' = clock_ok
         /\ calls' = calls \o StartCalls(clock_ok, fork_ok)
         /\ LET pre == <<SupOut("Starting command")>>
                         \o (IF clock_ok THEN <<>>
                             ELSE <<SupOut("Warning: Failed to get start time")>>)
            IN  IF fork_ok
                  THEN /\ child' = "created"
                       /\ log' = log \o pre \o <<SupOut("Child PID")>>
                       /\ pc' = "waiting"
                       /\ ret' = ret
                  ELSE /\ child' = child
                       /\ log' = log \o pre \o <<SupErr("Failed to create child process")>>
                       /\ pc' = "exited"
                       /\ ret' = EXIT_FAILURE
    /\ UNCHANGED <<cpu_expired, argv, limits, jail_enabled, disable_network, jail_path,
                   cmd_start_index, execution_time, child_root, trace,
                   zstatus, status, vars2, varsF, varsM, varsH>>

\* Child branch, lines 403-409: announce, apply the resource limits; a
\* failure ends the child with exit(EXIT_FAILURE).
Child_ApplyLimits ==
    /\ child = "created"
    /\ \E failing \in SUBSET Resources :
         LET r == apply_resource_limits(limits, failing)
         IN  /\ trace' = trace \o r.calls
             /\ IF r.rc # 0
                  THEN /\ log' = log \o <<ChildOut("Child process created")>> \o r.msgs
                                   \o <<ChildErr("Failed to apply resource limits")>>
                       /\ child' = "zombie"
                       /\ zstatus' = W_EXITCODE(EXIT_FAILURE, 0)
                  ELSE /\ log' = log \o <<ChildOut("Child process created")>> \o r.msgs
                       /\ child' = "limited"
                       /\ zstatus' = zstatus
    /\ UNCHANGED <<argv, calls, cpu_expired, pc, limits, jail_enabled, disable_network, jail_path,
                   cmd_start_index, start_ok, execution_time, child_root,
                   status, ret, vars2, varsF, varsM, varsH>>

\* Mutant: a filter that cannot be installed ends the child.
AfterNetworkFilter_Fatal(rc) == IF rc = 0 THEN "filtered" ELSE "zombie"

\* lines 414-422: neither branch of the --no-net block ends the child; with
\* the filter installed or not, control reaches the execvp below it.
AfterNetworkFilter(rc) == "filtered"

\* Child branch, lines 413-423: with --no-net install the seccomp filter; a
\* failure is logged and the child goes on.
Child_Network ==
    /\ child = "limited"
    /\ disable_network # 0
    /\ \E env \in SeccompEnvs :
         LET r == apply_network_seccomp(env)
         IN  /\ trace' = trace \o r.calls
             /\ log' = log \o (IF r.rc = 0
                                 THEN <<ChildOut("Seccomp network filter installed")>>
                                 ELSE <<ChildOut("Warning: Unable to install network filter"),
                                        ChildOut("Proceeding without kernel-level network restriction")>>)
             /\ child' = AfterNetworkFilter(r.rc)
    /\ UNCHANGED <<argv, calls, cpu_expired, pc, limits, jail_enabled, disable_network, jail_path,
                   cmd_start_index, start_ok, execution_time, child_root,
                   zstatus, status, ret, vars2, varsF, varsM, varsH>>

ExecCall(vec, ok) == [call |-> "execvp", file |-> vec[1], args |-> vec, ok |-> ok]

\* Child branch, lines 425-433: execvp the target; if it returns, the
\* child writes a diagnostic and exits with EXIT_FAILURE.
Child_Exec ==
    /\ \/ child = "filtered"
       \/ child = "limited" /\ disable_network = 0
    /\ \E exec_ok \in BOOLEAN :
         /\ trace' = Append(trace, ExecCall(TargetVector, exec_ok))
         /\ IF exec_ok
              THEN /\ child' = "target"
                   /\ UNCHANGED <<zstatus, log>>
              ELSE /\ child' = "zombie"
                   /\ zstatus' = W_EXITCODE(EXIT_FAILURE, 0)
                   /\ log' = Append(log, ChildErr("Failed to execute"))
    /\ UNCHANGED <<argv, calls, cpu_expired, pc, limits, jail_enabled, disable_network, jail_path,
                   cmd_start_index, start_ok, execution_time, child_root,
                   status, ret, vars2, varsF, varsM, varsH>>

\* Whether a status word reports a terminated child (which a wait reaps).
Terminated(st) == WIFEXITED(st) \/ WIFSIGNALED(st)

\* The target program ends, or changes state, with one of the status words.
Target_End ==
    /\ child = "target"
    /\ \E st \in TargetStatuses :
         /\ zstatus' = st
         /\ child' = IF Terminated(st) THEN "zombie" ELSE "stopped"
    /\ UNCHANGED <<argv, calls, cpu_expired, pc, limits, jail_enabled, disable_network, jail_path,
                   cmd_start_index, start_ok, execution_time, child_root,
                   trace, status, ret, log, vars2, varsF, varsM, varsH>>

\* The signal the kernel sends a process whose CPU time reaches its
\* RLIMIT_CPU: the hard limit is tested first and answers with SIGKILL, the
\* soft limit below it answers with SIGXCPU.  With --cpu=3 the recorded run
\* of the project ends with "terminated by signal 9 (Killed)".
RlimitCpuSignal(cur, max) == IF max <= cur THEN SIGKILL ELSE SIGXCPU

\* The setrlimit(RLIMIT_CPU) calls of the child that the kernel accepted.
CpuLimitCalls ==
    {i \in DOMAIN trace : /\ trace[i].call = "setrlimit"
                          /\ trace[i].res = "RLIMIT_CPU" /\ trace[i].ok}

\* A target that computes without end reaches the CPU limit the child
\* installed at lines 196-204 and is terminated by the kernel.
Target_CpuExpired ==
    /\ child = "target"
    /\ \E i \in CpuLimitCalls :
         zstatus' = RlimitCpuSignal(trace[i].cur, trace[i].max)
    /\ child' = "zombie"
    /\ cpu_expired' = TRUE
    /\ UNCHANGED <<argv, calls, pc, limits, jail_enabled, disable_network, jail_path,
                   cmd_start_index, start_ok, execution_time, child_root,
                   trace, status, ret, log, vars2, varsF, varsM, varsH>>

\* Parent branch, lines 439-508: waitpid returns, the end time is read,
\* the status word is classified and main returns.
Main_Wait ==
    /\ pc = "waiting"
    /\ child \in {"zombie", "stopped"}
    /\ \E wait_ok \in BOOLEAN, clock_ok \in BOOLEAN, garbage_nonneg \in BOOLEAN :
         LET et == IF ~clock_ok THEN "minus_one"
                   ELSE IF start_ok THEN "measured"
                   ELSE IF garbage_nonneg THEN "unread_start_nonneg"
                   ELSE "unread_start_neg"
             warn == IF clock_ok THEN <<>>
                     ELSE <<SupOut("Warning: Failed to get end time")>>
         IN  /\ execution_time' = et
             /\ calls' = calls \o EndCalls(wait_ok, clock_ok)
             /\ child' = IF child = "zombie" THEN "reaped" ELSE child
             /\ IF ~wait_ok
                  THEN /\ status' = status
                       /\ log' = log \o warn \o <<SupErr("waitpid() failed")>>
                       /\ ret' = EXIT_FAILURE
                  ELSE LET c == ClassifyStatus(zstatus, limits, et)
                       IN  /\ status' = zstatus
                           /\ log' = log \o warn \o c.msgs
                           /\ ret' = c.ret
    /\ pc' = "exited"
    /\ UNCHANGED <<cpu_expired, argv, limits, jail_enabled, disable_network, jail_path,
                   cmd_start_index, start_ok, child_root, trace, zstatus, vars2, varsF, varsM, varsH>>

---------------------------------------------------------------------------
(* sandbox_v2.c *)

\* The configurations parse_arguments returns 0 with: every limit is >= 0
\* and command_argv is not empty.
Configs ==
    [cpu_limit_seconds : {0, 1}, memory_limit_mb : {0, 1},
     timeout_seconds : 0..MaxTimeout, json_output : {0, 1}]

command_argv == <<T_ls>>

\* run_sandbox, lines 254-261
InitialResult ==
    [pid |-> 0, exit_code |-> -1, terminated_by_signal |-> 0,
     signal_number |-> 0, execution_time |-> "zero",
     cpu_limit_exceeded |-> 0, memory_limit_exceeded |-> 0,
     timeout_exceeded |-> 0]

\* log_message unless --json was given
Human(cfg, msg) == IF cfg.json_output = 0 THEN <<SupOut(msg)>> ELSE <<>>

\* apply_resource_limits of sandbox_v2.c (void): a setrlimit that fails is
\* reported as a warning on standard error and the function goes on.
V2LimitSteps(cfg) ==
    << [res |-> "RLIMIT_CPU", field |-> cfg.cpu_limit_seconds,
        value |-> cfg.cpu_limit_seconds,
        err |-> "Warning: Failed to set CPU limit", ok |-> "CPU limit set"],
       [res |-> "RLIMIT_AS", field |-> cfg.memory_limit_mb,
        value |-> MbToBytes(cfg.memory_limit_mb),
        err |-> "Warning: Failed to set memory limit", ok |-> "Memory limit set"] >>

RECURSIVE V2ApplyLimitsFrom(_, _, _, _)
V2ApplyLimitsFrom(steps, k, failing, acc) ==
    IF k > Len(steps) THEN acc
    ELSE LET b == steps[k]
             ok == b.res \notin failing
         IN  IF b.field > 0
               THEN V2ApplyLimitsFrom(steps, k + 1, failing,
                      [calls |-> Append(acc.calls,
                                   SetrlimitCall(b.res, b.value, b.value, ok)),
                       msgs |-> Append(acc.msgs,
                                  IF ok THEN ChildOut(b.ok) ELSE ChildErr(b.err)),
                       exit |-> acc.exit])
               ELSE V2ApplyLimitsFrom(steps, k + 1, failing, acc)

\* exit: whether the function ends the child (it never does: it returns void)
v2_apply_resource_limits(cfg, failing) ==
    V2ApplyLimitsFrom(V2LimitSteps(cfg), 1, failing,
                      [calls |-> <<>>, msgs |-> <<>>, exit |-> FALSE])

\* run_sandbox, lines 355-378: the result after the status word is analysed.
AnalyzeStatus(res, st) ==
    IF WIFEXITED(st)
      THEN [res EXCEPT !.exit_code = WEXITSTATUS(st)]
    ELSE IF WIFSIGNALED(st)
      THEN [res EXCEPT !.terminated_by_signal = 1,
                       !.signal_number = WTERMSIG(st),
                       !.cpu_limit_exceeded =
                           IF WTERMSIG(st) = SIGXCPU THEN 1 ELSE @]
    ELSE res

\* The records run_sandbox logs for the analysed status (human mode).
AnalyzeMsgs(cfg, st) ==
    IF WIFEXITED(st)
      THEN Human(cfg, "Process exited with code") \o Human(cfg, "Execution time")
    ELSE IF WIFSIGNALED(st)
      THEN Human(cfg, "Process terminated by signal") \o Human(cfg, "Execution time")
    ELSE <<>>

\* log_json_result: the object written on standard output.
JsonResult(res, cfg) ==
    [pid |-> res.pid,
     has_exit_code |-> TRUE,
     exit_code |-> res.exit_code,
     execution_time |-> res.execution_time,
     terminated_by_signal |-> res.terminated_by_signal # 0,
     has_signal_number |-> res.terminated_by_signal # 0,
     signal_number |-> IF res.terminated_by_signal # 0 THEN res.signal_number ELSE 0,
     limits |-> [cpu_seconds |-> cfg.cpu_limit_seconds,
                 memory_mb |-> cfg.memory_limit_mb,
                 timeout_seconds |-> cfg.timeout_seconds],
     limit_exceeded |-> [cpu |-> res.cpu_limit_exceeded # 0,
                         memory |-> res.memory_limit_exceeded # 0,
                         timeout |-> res.timeout_exceeded # 0],
     success |-> (res.exit_code = 0 /\ res.terminated_by_signal = 0)]

\* The violation flags a sandbox_result_t carries: the struct has the three
\* fields cpu_limit_exceeded, memory_limit_exceeded and timeout_exceeded,
\* and none for the file size.
ResultFlags(res) ==
    (IF res.cpu_limit_exceeded # 0 THEN {"cpu"} ELSE {})
      \cup (IF res.memory_limit_exceeded # 0 THEN {"memory"} ELSE {})
      \cup (IF res.timeout_exceeded # 0 THEN {"timeout"} ELSE {})

\* main, lines 405-410: the exit code for a finished run.
MainReturn(res) ==
    IF res.terminated_by_signal # 0 \/ res.exit_code # 0
      THEN EXIT_FAILURE ELSE EXIT_SUCCESS

\* One write on standard output: the record, and whether the call ends
\* with fflush(stdout) (log_message does, a bare printf does not).
StdWrite(rec, flush) == [rec |-> rec, flush |-> flush]
Writes(recs, flush) == [i \in DOMAIN recs |-> StdWrite(recs[i], flush)]

\* The records left in the stdio buffer after a sequence of writes.  On a
\* terminal the stream is line buffered and every record, ending in a
\* newline, goes out at once; on a pipe or a file it is fully buffered and
\* goes out on fflush only.
RECURSIVE Unflushed(_, _, _)
Unflushed(writes, full, buf) ==
    IF writes = <<>> THEN buf
    ELSE LET w == Head(writes)
         IN  Unflushed(Tail(writes), full,
                       IF w.flush \/ ~full THEN <<>> ELSE Append(buf, w.rec))

\* run_sandbox, lines 264-277: what is written on standard output before
\* fork: the warning with log_message, the command line with printf.
V2PreForkWrites(cfg, clock_ok) ==
    Writes(IF clock_ok THEN <<>>
           ELSE Human(cfg, "Warning: Failed to get start time"), TRUE)
      \o Writes(Human(cfg, "Executing"), FALSE)

\* sandbox.c, lines 352-389: the limits are echoed with printf, the command
\* line with log_command, which ends with fflush(stdout); a warning about
\* the clock is written with log_message.
MainPreForkWrites(clock_ok) ==
    Writes(<<SupOut("Active resource limits")>>, FALSE)
      \o Writes(<<SupOut("Executing command")>>, TRUE)
      \o Writes(IF clock_ok THEN <<>>
                ELSE <<SupOut("Warning: Failed to get start time")>>, TRUE)

\* The child flushes its copy of the buffer: the records come out again,
\* written by the child.
ChildFlush(buf) == [i \in DOMAIN buf |-> ChildOut(buf[i].msg)]

\* The records of the child with its copy of the buffer in front of the
\* first one it writes on standard output (log_message ends with fflush).
FlushInFront(msgs, buf) ==
    LET outs == {i \in DOMAIN msgs : msgs[i].fd = "stdout"}
    IN  IF outs = {} THEN msgs
        ELSE LET k == CHOOSE i \in outs : \A j \in outs : i <= j
             IN  SubSeq(msgs, 1, k - 1) \o ChildFlush(buf)
                   \o SubSeq(msgs, k, Len(msgs))

\* run_sandbox, lines 254-305: initialise the result, read the start time,
\* log the command, fork; the parent records the pid.  Standard output
\* is a terminal or is fully buffered.
V2_Start ==
    /\ pc2 = "start"
    /\ \E clock_ok \in BOOLEAN, fork_ok \in BOOLEAN, full_buffered \in BOOLEAN :
         LET pre == (IF clock_ok THEN <<>>
                     ELSE Human(config, "Warning: Failed to get start time"))
                      \o Human(config, "Executing")
         IN  /\ start_ok2' = clock_ok
             /\ cbuf2' = IF fork_ok
                           THEN Unflushed(V2PreForkWrites(config, clock_ok),
                                          full_buffered, <<>>)
                           ELSE <<>>
             /\ calls2' = calls2 \o StartCalls(clock_ok, fork_ok)
             /\ IF fork_ok
               THEN /\ result' = [InitialResult EXCEPT !.pid = 1]
                    /\ child2' = "created"
                    /\ log2' = log2 \o pre \o Human(config, "Process started with PID")
                    /\ pc2' = IF config.timeout_seconds > 0 THEN "poll" ELSE "wait"
                    /\ ret2' = ret2
               ELSE /\ result' = InitialResult
                    /\ child2' = child2
                    /\ log2' = log2 \o pre \o <<SupErr("Failed to fork")>>
                    /\ pc2' = "exited"
                    /\ ret2' = EXIT_FAILURE
    /\ UNCHANGED <<config, trace2, zstatus2, status2, timeout_count,
                   wait_result, killed2, json2, vars1, varsF, varsM, varsH>>

\* Child, line 289: apply the resource limits.
V2_ChildLimits ==
    /\ child2 = "created"
    /\ \E failing \in SUBSET {"RLIMIT_CPU", "RLIMIT_AS"} :
         LET r == v2_apply_resource_limits(config, failing)
         IN  /\ trace2' = trace2 \o r.calls
             /\ log2' = log2 \o FlushInFront(r.msgs, cbuf2)
             /\ cbuf2' = IF \E i \in DOMAIN r.msgs : r.msgs[i].fd = "stdout"
                           THEN <<>> ELSE cbuf2
             /\ IF r.exit
                  THEN child2' = "zombie" /\ zstatus2' = W_EXITCODE(EXIT_FAILURE, 0)
                  ELSE child2' = "limited" /\ zstatus2' = zstatus2
    /\ UNCHANGED <<config, calls2, start_ok2, result, pc2, status2, timeout_count, wait_result,
                   killed2, ret2, json2, vars1, varsF, varsM, varsH>>

\* Child, lines 292-297: execvp the target, which replaces the image and
\* its stdio buffers; if it returns, diagnostic and exit(EXIT_FAILURE),
\* which flushes what standard output still holds.
V2_ChildExec ==
    /\ child2 = "limited"
    /\ \E exec_ok \in BOOLEAN :
         /\ trace2' = Append(trace2, ExecCall(command_argv, exec_ok))
         /\ IF exec_ok
              THEN /\ child2' = "target"
                   /\ UNCHANGED <<zstatus2, log2>>
              ELSE /\ child2' = "zombie"
                   /\ zstatus2' = W_EXITCODE(EXIT_FAILURE, 0)
                   /\ log2' = Append(log2, ChildErr("Failed to execute"))
                                \o ChildFlush(cbuf2)
    /\ cbuf2' = <<>>
    /\ UNCHANGED <<config, calls2, start_ok2, result, pc2, status2, timeout_count, wait_result,
                   killed2, ret2, json2, vars1, varsF, varsM, varsH>>

\* The target program ends, or changes state, with one of the status words.
V2_TargetEnd ==
    /\ child2 = "target"
    /\ \E st \in TargetStatuses :
         /\ zstatus2' = st
         /\ child2' = IF Terminated(st) THEN "zombie" ELSE "stopped"
    /\ UNCHANGED <<cbuf2, config, calls2, start_ok2, result, pc2, trace2, status2, timeout_count,
                   wait_result, killed2, ret2, log2, json2, vars1, varsF, varsM, varsH>>

\* Whether the child is still alive (a wait with WNOHANG returns 0).
Running2 == child2 \in {"created", "limited", "target"}

\* run_sandbox, lines 312-325: one iteration of the polling loop.
V2_Poll ==
    /\ pc2 = "poll"
    /\ timeout_count < config.timeout_seconds
    /\ \/ /\ Running2
          /\ wait_result' = 0
          /\ timeout_count' = timeout_count + 1
          /\ pc2' = IF timeout_count + 1 < config.timeout_seconds
                      THEN "poll" ELSE "expired"
          /\ UNCHANGED <<child2, status2, ret2, log2>>
       \/ /\ ~Running2
          /\ wait_result' = 1
          /\ status2' = zstatus2
          /\ child2' = IF child2 = "zombie" THEN "reaped" ELSE child2
          /\ pc2' = "analyze"
          /\ UNCHANGED <<timeout_count, ret2, log2>>
       \/ /\ wait_result' = -1
          /\ log2' = Append(log2, SupErr("waitpid failed"))
          /\ ret2' = EXIT_FAILURE
          /\ pc2' = "exited"
          /\ UNCHANGED <<child2, status2, timeout_count>>
    /\ calls2' = Append(calls2, SupCall("waitpid", "WNOHANG", wait_result'))
    /\ UNCHANGED <<cbuf2, config, start_ok2, result, trace2, zstatus2, killed2, json2, vars1, varsF, varsM, varsH>>

\* Mutant: on expiry the timeout is marked but no signal is sent.
V2_Kill_FlagOnly ==
    /\ pc2 = "expired"
    /\ timeout_count >= config.timeout_seconds /\ wait_result = 0
    /\ result' = [result EXCEPT !.timeout_exceeded = 1]
    /\ pc2' = "reap"
    /\ UNCHANGED <<cbuf2, config, start_ok2, trace2, status2, timeout_count, wait_result,
                   ret2, log2, json2, calls2, killed2, child2, zstatus2, vars1, varsF, varsM, varsH>>

\* run_sandbox, lines 328-330: the loop ran out with the last poll at 0:
\* mark the timeout and send SIGKILL.  A child that is still alive dies of it.
V2_Kill ==
    /\ pc2 = "expired"
    /\ timeout_count >= config.timeout_seconds /\ wait_result = 0
    /\ result' = [result EXCEPT !.timeout_exceeded = 1]
    /\ killed2' = TRUE
    /\ calls2' = Append(calls2, SupCall("kill", "SIGKILL", 0))
    /\ IF Running2 \/ child2 = "stopped"
         THEN child2' = "zombie" /\ zstatus2' = SIGKILL
         ELSE UNCHANGED <<child2, zstatus2>>
    /\ pc2' = "reap"
    /\ UNCHANGED <<cbuf2, config, start_ok2, trace2, status2, timeout_count, wait_result,
                   ret2, log2, json2, vars1, varsF, varsM, varsH>>

\* run_sandbox, lines 331-335: the blocking waitpid after the kill; its
\* return value is not read.  If it fails, status keeps what it held: it
\* was never written, so it may hold any status word.
V2_Reap ==
    /\ pc2 = "reap"
    /\ child2 = "zombie"
    /\ \/ /\ status2' = zstatus2
          /\ calls2' = Append(calls2, SupCall("waitpid", "block", 1))
       \/ /\ \E st \in TargetStatuses : status2' = st
          /\ calls2' = Append(calls2, SupCall("waitpid", "block", -1))
    /\ child2' = "reaped"
    /\ log2' = log2 \o Human(config, "Process killed due to timeout")
    /\ pc2' = "analyze"
    /\ UNCHANGED <<cbuf2, config, start_ok2, result, trace2, zstatus2, timeout_count,
                   wait_result, killed2, ret2, json2, vars1, varsF, varsM, varsH>>

\* run_sandbox, lines 339-342: without a timeout, one blocking waitpid.
V2_Wait ==
    /\ pc2 = "wait"
    /\ ~Running2
    /\ \/ /\ status2' = zstatus2
          /\ pc2' = "analyze"
          /\ calls2' = Append(calls2, SupCall("waitpid", "block", 1))
          /\ UNCHANGED <<ret2, log2>>
       \/ /\ calls2' = Append(calls2, SupCall("waitpid", "block", -1))
          /\ log2' = Append(log2, SupErr("waitpid failed"))
          /\ ret2' = EXIT_FAILURE
          /\ pc2' = "exited"
          /\ UNCHANGED status2
    /\ child2' = IF child2 = "zombie" THEN "reaped" ELSE child2
    /\ UNCHANGED <<cbuf2, config, start_ok2, result, trace2, zstatus2, timeout_count,
                   wait_result, killed2, json2, vars1, varsF, varsM, varsH>>

\* run_sandbox, lines 345-380, and main, lines 400-410: read the end time,
\* analyse the status word, write the result, return.
V2_Report ==
    /\ pc2 = "analyze"
    /\ \E clock_ok \in BOOLEAN, garbage_nonneg \in BOOLEAN :
         LET timed == [result EXCEPT !.execution_time =
                         IF ~clock_ok THEN "zero"
                         ELSE IF start_ok2 THEN "measured"
                         ELSE IF garbage_nonneg THEN "unread_start_nonneg"
                         ELSE "unread_start_neg"]
             res == AnalyzeStatus(timed, status2)
         IN  /\ result' = res
             /\ calls2' = Append(calls2, ClockRead("end_time", clock_ok))
             /\ log2' = log2
                  \o (IF clock_ok THEN <<>>
                      ELSE Human(config, "Warning: Failed to get end time"))
                  \o AnalyzeMsgs(config, status2)
             /\ json2' = IF config.json_output # 0
                           THEN Append(json2, JsonResult(res, config)) ELSE json2
             /\ ret2' = MainReturn(res)
    /\ pc2' = "exited"
    /\ UNCHANGED <<cbuf2, config, start_ok2, child2, trace2, zstatus2, status2, timeout_count,
                   wait_result, killed2, vars1, varsF, varsM, varsH>>

---------------------------------------------------------------------------
(* sandbox.c: the filter program of apply_network_seccomp, as the kernel   *)
(* runs it on a system call (classic BPF over struct seccomp_data)         *)

\* System call numbers of <sys/syscall.h> on x86-64.
NR_socket == 41
NR_connect == 42
NR_sendto == 44
NR_recvfrom == 45
NR_sendmsg == 46
NR_recvmsg == 47
\* 0x00050000U, 0x7fff0000U and errno EPERM
SECCOMP_RET_ERRNO == 327680
SECCOMP_RET_ALLOW == 2147418112
EPERM == 1
\* Largest system call number of the contiguous range that is explored.
MaxSyscallNr == 63

\* "the filter has not returned"
NoVerdict == 0 - 1

\* The three kinds of instruction the program is made of.
BPF_LD_ABS(k) == [code |-> "ld_w_abs", k |-> k, jt |-> 0, jf |-> 0]
BPF_JEQ(k, jt, jf) == [code |-> "jeq_k", k |-> k, jt |-> jt, jf |-> jf]
BPF_RET(k) == [code |-> "ret_k", k |-> k, jt |-> 0, jf |-> 0]

\* Mutant: the jump offsets of the comparison are exchanged.
ZC_DENY_SYSCALL_Swapped(nr) ==
    << BPF_JEQ(nr, 1, 0), BPF_RET(SECCOMP_RET_ERRNO + (EPERM % 4096)) >>

\* #define ZC_DENY_SYSCALL(name): on equality fall into the RET that
\* follows, otherwise skip it.
ZC_DENY_SYSCALL(nr) ==
    << BPF_JEQ(nr, 0, 1), BPF_RET(SECCOMP_RET_ERRNO + (EPERM % 4096)) >>

\* offsetof(struct seccomp_data, nr) and the word of the data at an offset
OffsetOfNr == 0
SeccompWord(nr, off) == IF off = OffsetOfNr THEN nr ELSE "not_nr"

filter_program ==
    << BPF_LD_ABS(OffsetOfNr) >>
      \o ZC_DENY_SYSCALL(NR_socket)
      \o ZC_DENY_SYSCALL(NR_connect)
      \o ZC_DENY_SYSCALL(NR_sendto)
      \o ZC_DENY_SYSCALL(NR_sendmsg)
      \o ZC_DENY_SYSCALL(NR_recvfrom)
      \o ZC_DENY_SYSCALL(NR_recvmsg)
      \o << BPF_RET(SECCOMP_RET_ALLOW) >>

\* The instruction at C index bpf_pc.
BpfInsn == filter_program[bpf_pc + 1]
BpfRunning == bpf_ret = NoVerdict /\ bpf_pc < Len(filter_program)

\* The system call numbers the filter is run on: the contiguous range, and
\* socket and connect as numbered in the x32 ABI (bit 0x40000000 set).
SyscallNumbers ==
    (0..MaxSyscallNr) \cup {1073741824 + NR_socket, 1073741824 + NR_connect}

\* A <- the word of seccomp_data at offset k
Bpf_Load ==
    /\ BpfRunning /\ BpfInsn.code = "ld_w_abs"
    /\ bpf_A' = SeccompWord(sys_nr, BpfInsn.k)
    /\ bpf_pc' = bpf_pc + 1
    /\ UNCHANGED <<sys_nr, bpf_ret, vars1, vars2, varsM, varsH>>

\* pc += (A == k) ? jt : jf
Bpf_Jump ==
    /\ BpfRunning /\ BpfInsn.code = "jeq_k"
    /\ bpf_pc' = bpf_pc + 1 + (IF bpf_A = BpfInsn.k THEN BpfInsn.jt ELSE BpfInsn.jf)
    /\ UNCHANGED <<sys_nr, bpf_A, bpf_ret, vars1, vars2, varsM, varsH>>

\* return k
Bpf_Ret ==
    /\ BpfRunning /\ BpfInsn.code = "ret_k"
    /\ bpf_ret' = BpfInsn.k
    /\ UNCHANGED <<sys_nr, bpf_pc, bpf_A, vars1, vars2, varsM, varsH>>

IdleF == sys_nr = 0 /\ bpf_pc = 0 /\ bpf_A = 0 /\ bpf_ret = NoVerdict

---------------------------------------------------------------------------
(* The monitor: sampler, log writer and log rotation.  Its code            *)
(* (monitor/resource_monitor.py, monitor/log_rotate.py) is not among the   *)
(* sources; it is modelled from section 4.4 of the specification and from  *)
(* what tests/test_log_rotate.sh and docs/MONITORING_DASHBOARD.md say.     *)

\* Number of sessions (log files) explored.
MaxFiles == 2
\* Largest retention count explored.
MaxKeep == 1
\* Samples per session and clock values explored.
MaxSamples == 2
MaxClock == 1

\* "rotate_logs was not called"
NoReport == [ran |-> FALSE]

\* One record (one line) of a monitor log: the event tag; in a sample its
\* timestamp; in the stop record the number of samples of the session.
NoTime == 0 - 1
MonRecord(event, ts, n) == [event |-> event, ts |-> ts, samples |-> n]

\* Mutant: the log is opened for writing, not for appending.
AppendRecord_Truncates(content, rec) == <<rec>>

\* Records are appended to the file of the session.
AppendRecord(content, rec) == Append(content, rec)

\* The files in the log directory and in its archive/ subdirectory.
LogDir == {f \in DOMAIN m_files : m_files[f].place = "dir"}
Archive == {f \in DOMAIN m_files : m_files[f].place = "archive"}

\* Mutant: the files are sorted newest-last and the first N are kept.
RotationCandidates_Newest(files, keep) ==
    {f \in files : Cardinality({g \in files : g < f}) >= keep}

\* The files beyond the retention count: all but the keep newest (files are
\* numbered in the order of their modification times).
RotationCandidates(files, keep) ==
    {f \in files : Cardinality({g \in files : g > f}) >= keep}

\* rotate_logs(log_dir, keep, dry_run): the candidates that are open
\* elsewhere are skipped and reported, the others are gzipped into archive/;
\* a dry run reports the same plan and moves nothing.  before / after and
\* archive_before / archive_after are the two directories around the call.
rotate_logs(files, archive, keep, held, dry_run) ==
    LET cand == RotationCandidates(files, keep)
        moved == IF dry_run THEN {} ELSE cand \ held
    IN  [ran |-> TRUE, dry_run |-> dry_run, keep |-> keep,
         archived |-> cand \ held, skipped |-> cand \cap held,
         moved |-> moved,
         before |-> files, after |-> files \ moved,
         archive_before |-> archive, archive_after |-> archive \cup moved]

\* The files after a rotation moved a set of them into archive/.
Rotated(moved) ==
    [f \in DOMAIN m_files |->
       IF f \in moved THEN [m_files[f] EXCEPT !.place = "archive"] ELSE m_files[f]]

\* What a rotation finds open elsewhere: any files of the directory, and
\* always the file the attached worker is writing.
HeldSets == {h \in SUBSET LogDir : m_active # 0 => m_active \in h}

\* attach(pid, run_id, interval): rotate the old logs, create the log of the
\* session and write its start record.
Mon_Attach ==
    /\ m_active = 0
    /\ Len(m_files) < MaxFiles
    /\ \E held \in HeldSets :
         LET r == rotate_logs(LogDir, Archive, m_keep, held, FALSE)
         IN  /\ m_report' = r
             /\ m_files' = Append(Rotated(r.moved),
                             [place |-> "dir",
                              content |-> AppendRecord(<<>>, MonRecord("start", NoTime, 0))])
    /\ m_active' = Len(m_files) + 1
    /\ UNCHANGED <<m_clock, m_keep, vars1, vars2, varsF, varsH>>

\* The samples a log holds.
SamplesOf(content) == {i \in DOMAIN content : content[i].event = "sample"}

\* sample(): append one sample record stamped with the sampler's clock.
Mon_Sample ==
    /\ m_active # 0
    /\ Cardinality(SamplesOf(m_files[m_active].content)) < MaxSamples
    /\ m_files' = [m_files EXCEPT ![m_active].content =
                     AppendRecord(@, MonRecord("sample", m_clock, 0))]
    /\ m_report' = NoReport
    /\ UNCHANGED <<m_active, m_clock, m_keep, vars1, vars2, varsF, varsH>>

\* The sampler sleeps until its next tick: its clock advances.
Mon_Tick ==
    /\ m_active # 0
    /\ m_clock < MaxClock
    /\ m_clock' = m_clock + 1
    /\ m_report' = NoReport
    /\ UNCHANGED <<m_files, m_active, m_keep, vars1, vars2, varsF, varsH>>

\* detach(exit_code): append the stop record with the summary and close.
Mon_Detach ==
    /\ m_active # 0
    /\ m_files' = [m_files EXCEPT ![m_active].content =
                     AppendRecord(@, MonRecord("stop", NoTime,
                                    Cardinality(SamplesOf(@))))]
    /\ m_active' = 0
    /\ m_report' = NoReport
    /\ UNCHANGED <<m_clock, m_keep, vars1, vars2, varsF, varsH>>

\* rotate_logs run by hand (the Rotate Logs button, python -m
\* monitor.log_rotate --keep N [--dry-run]).
Mon_Rotate ==
    /\ \E held \in HeldSets, dry_run \in BOOLEAN :
         LET r == rotate_logs(LogDir, Archive, m_keep, held, dry_run)
         IN  /\ m_report' = r
             /\ m_files' = Rotated(r.moved)
    /\ UNCHANGED <<m_active, m_clock, m_keep, vars1, vars2, varsF, varsH>>

IdleM ==
    /\ m_files = <<>> /\ m_active = 0 /\ m_clock = 0 /\ m_keep = 0
    /\ m_report = NoReport

---------------------------------------------------------------------------
(* sandbox.c: setup_chroot_jail and the byte conversions of               *)
(* apply_resource_limits, applied to their arguments                       *)

\* Largest small --mem / --fsize value explored.
MaxMb == 6
\* "the function has not returned"
NoResult == [done |-> FALSE]

\* The values atol can return for --mem=M and --fsize=M that parse_arguments
\* accepts (M >= 0): the small ones, and those around 2^44 and LONG_MAX.
AcceptedMb ==
    {IntToLong(m) : m \in 0..MaxMb}
      \cup { <<65535, 65535, 4095, 0>>, <<0, 0, 4096, 0>>, <<1, 0, 4096, 0>>,
             <<65535, 65535, 65535, 32767>> }

\* The calls explored: setup_chroot_jail with the system calls the kernel
\* refuses, and the two conversions with a pair of accepted values.
JailCalls ==
    [fn : {"setup_chroot_jail"},
     fails : SUBSET {"chdir_jail", "chroot", "chdir_root"}]
ConvertCalls ==
    [fn : {"memory_mb", "max_file_mb"}, mb : AcceptedMb, mb2 : AcceptedMb]

\* setup_chroot_jail(jail_path) runs to its return.
Jail_Setup ==
    /\ h_call \in JailCalls /\ h_result = NoResult
    /\ h_result' = [done |-> TRUE] @@ setup_chroot_jail(h_call.fails)
    /\ UNCHANGED <<h_call, vars1, vars2, varsF, varsM>>

\* The memory / file size block of apply_resource_limits computes the
\* limit it hands to setrlimit.
Limits_Convert ==
    /\ h_call \in ConvertCalls /\ h_result = NoResult
    /\ h_result' = [done |-> TRUE,
                    rlim |-> MbToRlim(h_call.mb), rlim2 |-> MbToRlim(h_call.mb2)]
    /\ UNCHANGED <<h_call, vars1, vars2, varsF, varsM>>

IdleH == h_call = [fn |-> "none"] /\ h_result = NoResult

---------------------------------------------------------------------------
(* The two programs and their specifications *)

Idle1 ==
    /\ argv = <<>> /\ pc = "idle" /\ limits = NoLimits
    /\ jail_enabled = 0 /\ disable_network = 0 /\ jail_path = <<>>
    /\ cmd_start_index = 0 /\ start_ok = FALSE /\ execution_time = "unset"
    /\ child = "none" /\ child_root = "host" /\ trace = <<>>
    /\ zstatus = NoStatus /\ status = NoStatus /\ ret = NoRet /\ log = <<>>
    /\ calls = <<>> /\ cpu_expired = FALSE

Idle2 ==
    /\ config = [cpu_limit_seconds |-> 0, memory_limit_mb |-> 0,
                 timeout_seconds |-> 0, json_output |-> 0]
    /\ result = [pid |-> 0] /\ pc2 = "idle" /\ start_ok2 = FALSE
    /\ child2 = "none" /\ trace2 = <<>>
    /\ zstatus2 = NoStatus /\ status2 = NoStatus /\ timeout_count = 0
    /\ wait_result = 0 /\ killed2 = FALSE /\ ret2 = NoRet /\ log2 = <<>>
    /\ json2 = <<>> /\ calls2 = <<>> /\ cbuf2 = <<>>

\* sandbox.c is started with any of the argument vectors.
Init ==
    /\ argv \in ArgVectors
    /\ pc = "start"
    /\ limits = NoLimits
    /\ jail_enabled = 0 /\ disable_network = 0 /\ jail_path = <<>>
    /\ cmd_start_index = 0 /\ start_ok = FALSE /\ execution_time = "unset"
    /\ child = "none" /\ child_root = "host" /\ trace = <<>>
    /\ zstatus = NoStatus /\ status = NoStatus /\ ret = NoRet /\ log = <<>>
    /\ calls = <<>> /\ cpu_expired = FALSE
    /\ Idle2 /\ IdleF /\ IdleM /\ IdleH

Next ==
    \/ Main_Parse
    \/ Main_Validate
    \/ Main_Fork
    \/ Child_ApplyLimits
    \/ Child_Network
    \/ Child_Exec
    \/ Target_End
    \/ Target_CpuExpired
    \/ Main_Wait

Spec == Init /\ [][Next]_vars

\* sandbox_v2 is started with any of the configurations.
InitV2 ==
    /\ config \in Configs
    /\ result = [pid |-> 0] /\ pc2 = "start" /\ start_ok2 = FALSE
    /\ child2 = "none" /\ trace2 = <<>>
    /\ zstatus2 = NoStatus /\ status2 = NoStatus /\ timeout_count = 0
    /\ wait_result = 0 /\ killed2 = FALSE /\ ret2 = NoRet /\ log2 = <<>>
    /\ json2 = <<>> /\ calls2 = <<>> /\ cbuf2 = <<>>
    /\ Idle1 /\ IdleF /\ IdleM /\ IdleH

NextV2 ==
    \/ V2_Start
    \/ V2_ChildLimits
    \/ V2_ChildExec
    \/ V2_TargetEnd
    \/ V2_Poll
    \/ V2_Kill
    \/ V2_Reap
    \/ V2_Wait
    \/ V2_Report

SpecV2 == InitV2 /\ [][NextV2]_vars

\* The supervisor of sandbox_v2.c is a sequential program that the scheduler
\* keeps running: each of its steps is eventually taken (sleep(1), kill and
\* the wait on a killed child return).  Nothing is assumed about the child
\* or the target, which may run for ever.
SpecV2Fair ==
    /\ SpecV2
    /\ WF_vars(V2_Start) /\ WF_vars(V2_Poll) /\ WF_vars(V2_Kill)
    /\ WF_vars(V2_Reap) /\ WF_vars(V2_Wait) /\ WF_vars(V2_Report)

\* The kernel runs the installed filter on a system call of the target.
InitFilter ==
    /\ sys_nr \in SyscallNumbers
    /\ bpf_pc = 0 /\ bpf_A = 0 /\ bpf_ret = NoVerdict
    /\ Idle1 /\ Idle2 /\ IdleM /\ IdleH

NextFilter ==
    \/ Bpf_Load
    \/ Bpf_Jump
    \/ Bpf_Ret

SpecFilter == InitFilter /\ [][NextFilter]_vars

\* The monitor starts on an empty log directory with a retention count.
InitMonitor ==
    /\ m_files = <<>> /\ m_active = 0 /\ m_clock = 0
    /\ m_keep \in 0..MaxKeep
    /\ m_report = NoReport
    /\ Idle1 /\ Idle2 /\ IdleF /\ IdleH

NextMonitor ==
    \/ Mon_Attach
    \/ Mon_Sample
    \/ Mon_Tick
    \/ Mon_Detach
    \/ Mon_Rotate

SpecMonitor == InitMonitor /\ [][NextMonitor]_vars

\* A helper function is called with any of the explored arguments.
InitHelpers ==
    /\ h_call \in JailCalls \cup ConvertCalls
    /\ h_result = NoResult
    /\ Idle1 /\ Idle2 /\ IdleF /\ IdleM

NextHelpers ==
    \/ Jail_Setup
    \/ Limits_Convert

SpecHelpers == InitHelpers /\ [][NextHelpers]_vars

---------------------------------------------------------------------------
(* Properties *)

Range(seq) == {seq[i] : i \in DOMAIN seq}
Logged(l, msg) == \E r \in Range(l) : r.msg = msg

\* The child of sandbox.c has exec'd the target.
Execd == \E i \in DOMAIN trace : trace[i].call = "execvp" /\ trace[i].ok
\* The supervisor of sandbox.c forked, waited and returned.
WaitedAndExited == pc = "exited" /\ child # "none"

\* C1: when the child was forked, exec'd the target and the wait status
\* says it exited normally with code k (0..255), main returns exactly k.
C1_ExitCodePropagated ==
    \A k \in 0..255 :
        (WaitedAndExited /\ Execd /\ status = W_EXITCODE(k, 0)) => ret = k

C1_Witness ==
    WaitedAndExited /\ Execd /\ status = W_EXITCODE(255, 0) /\ ret = 255

\* C2: when waitpid fails, or the status word is not that of a normal exit
\* (a signal, a stop, an unrecognised word), main returns a non-zero code.
C2_AbnormalEndNonZero ==
    (WaitedAndExited
       /\ (status = NoStatus \/ ~(\E k \in 0..255 : status = W_EXITCODE(k, 0))))
      => ret \in 1..255

C2_Witness ==
    WaitedAndExited /\ status = W_STOPCODE(19) /\ ret = EXIT_FAILURE

\* C3 (as claimed): in sandbox_v2.c, a child that exits with code k makes
\* main return k, for every k.
C3_V2ExitCodePropagated ==
    \A k \in 0..255 :
        (pc2 = "exited" /\ child2 = "reaped" /\ zstatus2 = W_EXITCODE(k, 0)
           /\ status2 = zstatus2)
          => ret2 = k

\* C4 (as claimed): whenever a jail was requested and the target is exec'd,
\* the child has entered the jail (chdir, chroot, chdir) before the execvp;
\* the target never runs with a requested jail and the original root.
C4_JailEnteredBeforeExec ==
    /\ \A i \in DOMAIN trace :
         (trace[i].call = "execvp" /\ jail_enabled # 0)
           => \E a, b, c \in 1..(i - 1) :
                /\ a < b /\ b < c
                /\ trace[a].call = "chdir_jail" /\ trace[a].ok
                /\ trace[b].call = "chroot" /\ trace[b].ok
                /\ trace[c].call = "chdir_root" /\ trace[c].ok
    /\ (child = "target" /\ jail_enabled # 0) => child_root = "jail"

\* The stage of the enforcement a system call of the child belongs to.
Stage(c) ==
    IF c.call = "setrlimit" THEN 1
    ELSE IF c.call \in {"chdir_jail", "chroot", "chdir_root"} THEN 2
    ELSE IF c.call = "prctl" THEN 3
    ELSE 4

\* No call of a later stage precedes a call of an earlier one; execvp is last.
StagesInOrder ==
    \A i, j \in DOMAIN trace :
        i < j => Stage(trace[i]) <= Stage(trace[j]) /\ Stage(trace[i]) < 4

\* Before the execvp every requested limit has had its setrlimit call and
\* the network filter, if requested, has been attempted.
LimitsAndFilterAttempted ==
    \A i \in DOMAIN trace :
        trace[i].call = "execvp" =>
          /\ \A k \in 1..4 :
               LimitSteps(limits)[k].field > 0 =>
                 \E j \in 1..(i - 1) :
                    /\ trace[j].call = "setrlimit"
                    /\ trace[j].res = LimitSteps(limits)[k].res
          /\ disable_network # 0 =>
               \/ Logged(log, "Seccomp network filter installed")
               \/ Logged(log, "Warning: Unable to install network filter")

JailAttempted ==
    \A i \in DOMAIN trace :
        (trace[i].call = "execvp" /\ jail_enabled # 0)
          => \E j \in 1..(i - 1) : Stage(trace[j]) = 2

\* C5 (as claimed): every requested restriction is installed, or its
\* installation attempted, before the execvp, in the order resource limits,
\* chroot jail, no-new-privileges and network filter, execvp.
C5_EnforcementOrder ==
    StagesInOrder /\ LimitsAndFilterAttempted /\ JailAttempted

\* C6: in the sandbox.c child, a setrlimit that fails is the last call the
\* child makes: no later limit, no filter and no execvp follow; the child
\* writes the diagnostic and ends with a non-zero exit status.
C6_SetrlimitFailureFatal ==
    \A i \in DOMAIN trace :
        (trace[i].call = "setrlimit" /\ ~trace[i].ok)
          => /\ i = Len(trace)
             /\ ~Execd
             /\ child \in {"zombie", "reaped"}
             /\ \E k \in 1..255 : zstatus = W_EXITCODE(k, 0)
             /\ Logged(log, "Failed to apply resource limits")

C6_Witness ==
    /\ \E i \in DOMAIN trace : trace[i].call = "setrlimit" /\ ~trace[i].ok
    /\ Len(trace) = 2
    /\ WaitedAndExited /\ ret = EXIT_FAILURE

\* C7 (as claimed): in the sandbox_v2.c child, a setrlimit that fails is
\* fatal: the target is not exec'd and the child exits non-zero.
C7_V2SetrlimitFailureFatal ==
    \A i \in DOMAIN trace2 :
        (trace2[i].call = "setrlimit" /\ ~trace2[i].ok)
          => /\ \A j \in DOMAIN trace2 : trace2[j].call # "execvp"
             /\ child2 # "target"

JailDiagnostics ==
    {"Unable to resolve jail path", "Cannot stat jail path",
     "Jail path is not a directory", "Jail path is not accessible"}

\* C8: once the jail validation has failed at any step, the supervisor has
\* returned non-zero, and no child exists: fork was never called.
C8_JailFailureNoFork ==
    (\E d \in JailDiagnostics : Logged(log, d))
      => /\ pc = "exited"
         /\ ret \in 1..255
         /\ child = "none"
         /\ trace = <<>>

C8_Witness ==
    /\ Logged(log, "Jail path is not accessible")
    /\ jail_path = <<"/", "r">>
    /\ pc = "exited"

\* The tokens the parser reads as options: the leading tokens that begin
\* with '-', up to a bare --.
IsOptionToken(t) == Len(t) > 0 /\ t[1] = "-" /\ t # T_dashdash
RECURSIVE OptionCount(_, _)
OptionCount(args, i) ==
    IF i <= Len(args) /\ IsOptionToken(args[i])
      THEN OptionCount(args, i + 1) ELSE i - 1

NumericPrefixes == {P_cpu, P_mem, P_procs, P_fsize}
ValueOf(t) ==
    LET pre == CHOOSE q \in NumericPrefixes : StartsWith(t, q)
    IN  Skip(t, Len(pre))
IsNumericOption(t) == \E q \in NumericPrefixes : StartsWith(t, q)

\* The kinds of configuration error, read off the token itself.
NegativeValue(t) ==
    /\ IsNumericOption(t)
    /\ Len(ValueOf(t)) >= 2
    /\ ValueOf(t)[1] = "-"
    /\ IsDigit(ValueOf(t)[2]) /\ ValueOf(t)[2] # "0"
EmptyJail(t) == t = P_jail
TooLongJail(t) == StartsWith(t, P_jail) /\ Len(t) - Len(P_jail) >= JailPathSize
UnknownToken(t) ==
    /\ IsOptionToken(t)
    /\ t \notin {T_help, T_nonet}
    /\ ~IsNumericOption(t)
    /\ ~StartsWith(t, P_jail)
NonNumericValue(t) ==
    /\ IsNumericOption(t)
    /\ \/ ValueOf(t) = <<>>
       \/ ~IsDigit(ValueOf(t)[1]) /\ ValueOf(t)[1] \notin {"-", "+"}

\* The parser meets an option for which Bad holds (no --help stops it before).
ParserMeets(Bad(_)) ==
    \E j \in 1..OptionCount(argv, 1) :
        /\ Bad(argv[j])
        /\ \A i \in 1..(j - 1) : argv[i] # T_help

\* No token of a target command follows the options (and no --help is met).
NoTargetCommand ==
    LET n == OptionCount(argv, 1)
    IN  /\ \A i \in 1..n : argv[i] # T_help
        /\ \/ n = Len(argv)
           \/ n + 1 = Len(argv) /\ argv[n + 1] = T_dashdash

ConfigurationError ==
    \/ ParserMeets(UnknownToken)
    \/ ParserMeets(NegativeValue)
    \/ ParserMeets(EmptyJail)
    \/ ParserMeets(TooLongJail)
    \/ NoTargetCommand

\* The run ends in main's argument handling: non-zero exit, no fork.
RejectedBeforeFork ==
    /\ pc \in {"start", "exited"}
    /\ pc = "exited" => ret \in 1..255
    /\ child = "none"

C10_NonNumericRejected == ParserMeets(NonNumericValue) => RejectedBeforeFork

\* --help is one of the option tokens: it stands before the first token
\* that does not begin with '-' and before a bare --.
HelpAmongOptions == \E j \in 1..OptionCount(argv, 1) : argv[j] = T_help

\* An option token the parser rejects.
RejectedOption(t) ==
    \/ UnknownToken(t)
    \/ IsNumericOption(t) /\ atoi(ValueOf(t)) < 0
    \/ EmptyJail(t)
    \/ TooLongJail(t)

\* --help is one of the option tokens and no option before it is rejected.
HelpReached ==
    \E j \in 1..OptionCount(argv, 1) :
        /\ argv[j] = T_help
        /\ \A i \in 1..(j - 1) : ~RejectedOption(argv[i])

\* The run ends in the parser with the usage text and exit code 0, no fork.
HelpOutcome ==
    /\ pc \in {"start", "exited"}
    /\ child = "none" /\ trace = <<>>
    /\ pc = "exited" => ret = EXIT_SUCCESS /\ Logged(log, "Usage")

\* C11 (as claimed): whenever --help is among the option tokens, whatever
\* options precede or follow it, the supervisor prints the usage, exits with
\* code 0 and forks no child.
C11_HelpAlwaysExitsZero == HelpAmongOptions => HelpOutcome

\* C11 (amended): whenever --help is among the option tokens and every
\* option token before it is one the parser accepts, the supervisor prints
\* the usage, exits with code 0 and forks no child, whatever follows --help.
C11_HelpReachedExitsZero == HelpReached => HelpOutcome

C11_Witness ==
    /\ Len(argv) = 3 /\ argv[1] = T_nonet /\ argv[2] = T_help /\ argv[3] = T_ls
    /\ pc = "exited" /\ ret = EXIT_SUCCESS /\ Logged(log, "Usage")

\* Where the target command starts, read off the command line: at the first
\* token that does not begin with '-', or right after a bare -- met first.
ExpectedTargetStart ==
    LET n == OptionCount(argv, 1)
    IN  IF n < Len(argv) /\ argv[n + 1] = T_dashdash THEN n + 2 ELSE n + 1

\* C12: the vector handed to execvp is exactly the suffix of the command
\* line from the start of the target command on: every token of it, in
\* order and unchanged, also those that begin with '-' or look like options;
\* the program file is its first token.
C12_TargetVectorVerbatim ==
    \A i \in DOMAIN trace :
        trace[i].call = "execvp" =>
          /\ ExpectedTargetStart <= Len(argv)
          /\ trace[i].args = SubSeq(argv, ExpectedTargetStart, Len(argv))
          /\ trace[i].file = argv[ExpectedTargetStart]

C12_Witness ==
    /\ argv = <<T_nonet, T_dashdash, T_unknown, T_ls>>
    /\ \E i \in DOMAIN trace :
         /\ trace[i].call = "execvp" /\ trace[i].ok
         /\ trace[i].args = <<T_unknown, T_ls>>

\* The policy field behind a kernel resource and the limit the policy asks
\* for: seconds and a process count as given, megabytes as 2^20 bytes each.
PolicyField(res) ==
    IF res = "RLIMIT_CPU" THEN limits.cpu_seconds
    ELSE IF res = "RLIMIT_AS" THEN limits.memory_mb
    ELSE IF res = "RLIMIT_NPROC" THEN limits.max_processes
    ELSE limits.max_file_mb
RequestedLimit(res) ==
    IF res \in {"RLIMIT_AS", "RLIMIT_FSIZE"}
      THEN PolicyField(res) * 1048576 ELSE PolicyField(res)
ResourceOrder(res) ==
    IF res = "RLIMIT_CPU" THEN 1
    ELSE IF res = "RLIMIT_AS" THEN 2
    ELSE IF res = "RLIMIT_NPROC" THEN 3
    ELSE 4

\* The setrlimit calls the child has made on a resource.
SetrlimitCallsOn(res) ==
    {i \in DOMAIN trace : trace[i].call = "setrlimit" /\ trace[i].res = res}
\* Exactly one call on res, with soft = hard = the requested limit.
OneCallWithBothLimits(res) ==
    /\ Cardinality(SetrlimitCallsOn(res)) = 1
    /\ \A i \in SetrlimitCallsOn(res) :
         trace[i].cur = RequestedLimit(res) /\ trace[i].max = RequestedLimit(res)
\* A setrlimit call on a resource handled before res has failed.
EarlierLimitFailed(res) ==
    \E i \in DOMAIN trace :
        /\ trace[i].call = "setrlimit" /\ ~trace[i].ok
        /\ ResourceOrder(trace[i].res) < ResourceOrder(res)
\* The child is past apply_resource_limits.
LimitsStageDone == child \notin {"none", "created"}

FilterWarning == "Warning: Unable to install network filter"
FilterInstalled == "Seccomp network filter installed"

\* C14: once the child has logged that the network filter could not be
\* installed, it is not ended by that failure: it stands before the execvp
\* (which it can take) or has called it, and every requested resource limit
\* is in force, set by a successful setrlimit call.
C14_FilterFailureNonFatal ==
    Logged(log, FilterWarning) =>
      /\ child \in {"filtered", "target", "stopped", "zombie", "reaped"}
      /\ child = "filtered" => ENABLED Child_Exec
      /\ child # "filtered" => \E i \in DOMAIN trace : trace[i].call = "execvp"
      /\ \A res \in Resources :
           PolicyField(res) > 0 =>
             \E i \in SetrlimitCallsOn(res) : trace[i].ok

C14_Witness ==
    /\ Logged(log, FilterWarning)
    /\ limits.cpu_seconds = 2
    /\ \E i \in DOMAIN trace :
         trace[i].call = "prctl" /\ trace[i].op = "PR_SET_SECCOMP" /\ ~trace[i].ok
    /\ child = "target"

PrctlDone(op, ok) ==
    \E i \in DOMAIN trace :
        trace[i].call = "prctl" /\ trace[i].op = op /\ trace[i].ok = ok
\* The child is past the --no-net block with the network restriction requested.
FilterStageDone ==
    disable_network # 0 /\ child \in {"filtered", "target", "stopped", "zombie", "reaped"}
                        /\ ~(\E i \in DOMAIN trace : trace[i].call = "setrlimit" /\ ~trace[i].ok)

\* C15: the record that the network filter is installed is written only
\* when the no-new-privileges call and the filter-install call both
\* succeeded; when either failed, and whenever the filter was requested and
\* not installed, the warning record is written and the installed record
\* is not.
C15_NoFalseInstalledReport ==
    /\ Logged(log, FilterInstalled) =>
         /\ PrctlDone("PR_SET_NO_NEW_PRIVS", TRUE)
         /\ PrctlDone("PR_SET_SECCOMP", TRUE)
         /\ ~Logged(log, FilterWarning)
    /\ (PrctlDone("PR_SET_NO_NEW_PRIVS", FALSE) \/ PrctlDone("PR_SET_SECCOMP", FALSE))
         => Logged(log, FilterWarning) /\ ~Logged(log, FilterInstalled)
    /\ (FilterStageDone /\ ~PrctlDone("PR_SET_SECCOMP", TRUE))
         => Logged(log, FilterWarning) /\ ~Logged(log, FilterInstalled)

C15_Witness ==
    /\ PrctlDone("PR_SET_NO_NEW_PRIVS", TRUE)
    /\ PrctlDone("PR_SET_SECCOMP", FALSE)
    /\ Logged(log, FilterWarning) /\ ~Logged(log, FilterInstalled)
    /\ pc = "exited" /\ Execd

\* The six system calls the filter is meant to deny.
DeniedSyscalls ==
    {NR_socket, NR_connect, NR_sendto, NR_sendmsg, NR_recvfrom, NR_recvmsg}
\* The action and the data of a filter return value (upper and lower 16 bits).
RetAction(r) == r - (r % 65536)
RetData(r) == r % 65536
DeniesWithEPERM(r) == RetAction(r) = SECCOMP_RET_ERRNO /\ RetData(r) = EPERM

\* C16: run on any system call number, the filter program returns "fail
\* with errno EPERM" exactly for the six socket calls and "allow" for every
\* other number; it never runs past its last instruction.
C16_FilterDeniesExactlySocketCalls ==
    /\ bpf_ret = NoVerdict => bpf_pc < Len(filter_program)
    /\ bpf_ret # NoVerdict =>
         /\ DeniesWithEPERM(bpf_ret) <=> sys_nr \in DeniedSyscalls
         /\ bpf_ret = SECCOMP_RET_ALLOW <=> sys_nr \notin DeniedSyscalls

C16_Witness ==
    /\ sys_nr = NR_recvmsg
    /\ bpf_A = NR_recvmsg
    /\ bpf_ret = SECCOMP_RET_ERRNO + EPERM

\* sandbox.c: waitpid returned a status and main has classified it.
Completed1 == pc = "exited" /\ child # "none" /\ status # NoStatus
ExitedNormally1 == Logged(log, "Process exited normally")
TerminatedBySignal1 == Logged(log, "Process terminated by signal")

\* sandbox_v2.c: a wait returned the status of the child, and run_sandbox
\* has analysed it.  exit_code is -1 unless the normal-exit branch set it.
Completed2 == pc2 = "exited" /\ status2 # NoStatus /\ status2 = zstatus2
ExitedNormally2 == result.exit_code # -1
TerminatedBySignal2 == result.terminated_by_signal # 0

\* C17 (as claimed): in every completed run exactly one of "exited
\* normally" and "terminated by signal" holds in the classification of the
\* supervisor, in sandbox.c and in sandbox_v2.c.
C17_ExactlyOneOutcome ==
    /\ Completed1 => (ExitedNormally1 # TerminatedBySignal1)
    /\ Completed2 => (ExitedNormally2 # TerminatedBySignal2)

\* The two outcomes are never reported together, and one of them is
\* reported whenever the status word is that of a terminated child.
ExactlyOneWhenTerminated ==
    /\ Completed1 =>
         /\ ~(ExitedNormally1 /\ TerminatedBySignal1)
         /\ Terminated(status) => (ExitedNormally1 \/ TerminatedBySignal1)
    /\ Completed2 =>
         /\ ~(ExitedNormally2 /\ TerminatedBySignal2)
         /\ Terminated(status2) => (ExitedNormally2 \/ TerminatedBySignal2)

\* sandbox.c: main has returned after a wait that reported termination by sig.
TerminatedBy1(sig) ==
    Completed1 /\ WIFSIGNALED(status) /\ WTERMSIG(status) = sig
CpuViolationReported1 ==
    Logged(log, "RESOURCE LIMIT VIOLATED: CPU time limit exceeded")
FileSizeViolationReported1 ==
    Logged(log, "RESOURCE LIMIT VIOLATED: File size limit exceeded")

\* sandbox_v2.c: run_sandbox has analysed a status word that reports
\* termination by sig (status is written on every path that reaches the
\* analysis and on no other).
Analysed2 == pc2 = "exited" /\ status2 # NoStatus
TerminatedBy2(sig) ==
    Analysed2 /\ WIFSIGNALED(status2) /\ WTERMSIG(status2) = sig

\* The part of C18 on the CPU limit, in both programs, and on the file
\* size in sandbox.c.
ViolationFollowsSignal ==
    /\ CpuViolationReported1 <=> TerminatedBy1(SIGXCPU)
    /\ FileSizeViolationReported1 <=> TerminatedBy1(SIGXFSZ)
    /\ pc2 = "exited" => ("cpu" \in ResultFlags(result) <=> TerminatedBy2(SIGXCPU))

\* C18 (as claimed): the supervisor reports a CPU-limit violation exactly
\* when the child was terminated by SIGXCPU and a file-size violation
\* exactly when it was terminated by SIGXFSZ, in sandbox.c (log records) and
\* in sandbox_v2.c (flags of the Result).
C18_ViolationFollowsSignal ==
    /\ ViolationFollowsSignal
    /\ pc2 = "exited" =>
         ("file_size" \in ResultFlags(result) <=> TerminatedBy2(SIGXFSZ))

\* C19 (as claimed): in sandbox_v2.c the Result has memory_limit_exceeded
\* exactly when the child was terminated by SIGKILL and a memory limit > 0
\* was requested; in sandbox.c the "possibly by memory limit" record is
\* written only when memory_mb > 0.
C19_MemoryAttribution ==
    /\ pc2 = "exited" =>
         ("memory" \in ResultFlags(result)
            <=> (TerminatedBy2(SIGKILL) /\ config.memory_limit_mb > 0))
    /\ Logged(log, "Process was killed (possibly by memory limit)")
         => limits.memory_mb > 0

\* C20 (as claimed): in every Result that sandbox_v2.c emits, success is
\* true exactly when the child exited normally with code 0 and no violation
\* flag is set; no Result has success together with timeout_exceeded.
\* (Stated for the runs whose last wait returned the status of the child.)
C20_SuccessMeansCleanExit ==
    \A j \in DOMAIN json2 :
        LET r == json2[j]
        IN  Completed2 =>
            /\ r.success <=>
                 /\ WIFEXITED(status2) /\ r.exit_code = 0
                 /\ ~r.limit_exceeded.cpu
                 /\ ~r.limit_exceeded.memory
                 /\ ~r.limit_exceeded.timeout
            /\ ~(r.success /\ r.limit_exceeded.timeout)

\* The positions in calls2 of the calls of one kind.
Calls2Of(name, arg) ==
    {i \in DOMAIN calls2 : calls2[i].call = name /\ calls2[i].arg = arg}
\* The timeout has expired: T > 0 polls were made and each of them returned 0.
Expired2 ==
    /\ config.timeout_seconds > 0
    /\ Cardinality(Calls2Of("waitpid", "WNOHANG")) = config.timeout_seconds
    /\ \A i \in Calls2Of("waitpid", "WNOHANG") : calls2[i].ret = 0

C22_ResourceCauseWins ==
    Completed2 =>
      /\ ~({"cpu", "timeout"} \subseteq ResultFlags(result))
      /\ \A j \in DOMAIN json2 :
           ~(json2[j].limit_exceeded.cpu /\ json2[j].limit_exceeded.timeout)

\* In a sequence of supervisor calls: the start time is read before fork
\* is called, and the end time is read after the last wait on the child.
ClockBracketsRun(cs) ==
    /\ \A f \in DOMAIN cs : cs[f].call = "fork" =>
         \E a \in 1..(f - 1) : cs[a].call = "clock_gettime" /\ cs[a].arg = "start_time"
    /\ \A e \in DOMAIN cs :
         (cs[e].call = "clock_gettime" /\ cs[e].arg = "end_time") =>
           /\ \E w \in 1..(e - 1) : cs[w].call = "waitpid"
           /\ \A w \in DOMAIN cs : cs[w].call = "waitpid" => w < e
ClockReadFailed(cs) ==
    \E i \in DOMAIN cs : cs[i].call = "clock_gettime" /\ cs[i].ret = -1

\* An elapsed time is reported: by sandbox.c as one of its two records, by
\* sandbox_v2.c as the "Execution time" record or as the execution_time
\* member of the JSON object.
ElapsedReported1 ==
    Logged(log, "Execution time") \/ Logged(log, "Execution time before termination")
ElapsedReported2 == Logged(log2, "Execution time") \/ json2 # <<>>

\* The order of the clock reads around fork and wait, in both programs.
TimestampsInOrder == ClockBracketsRun(calls) /\ ClockBracketsRun(calls2)

\* C23 (as claimed): the start time is read before fork and the end time
\* after the last wait, and therefore every elapsed time that is reported
\* is the difference of these two readings, which covers the life of the
\* child from fork to termination.
C23_ElapsedCoversLifetime ==
    /\ TimestampsInOrder
    /\ ElapsedReported1 => execution_time = "measured"
    /\ ElapsedReported2 => result.execution_time = "measured"

\* C24 (as claimed): when the read of the start time or of the end time
\* has failed, no elapsed time is reported: neither a value computed from a
\* timestamp that was not read nor a placeholder number.
C24_NoFabricatedElapsed ==
    /\ ClockReadFailed(calls) => ~ElapsedReported1
    /\ ClockReadFailed(calls2) => ~ElapsedReported2


---------------------------------------------------------------------------
(* C25 *)

\* The child's execvp returned (it only returns on failure).
ExecFailed == \E i \in DOMAIN trace : trace[i].call = "execvp" /\ ~trace[i].ok
\* The child wrote its exec diagnostic on standard error.
ExecDiagnostic ==
    \E r \in Range(log) : r = ChildErr("Failed to execute")

\* C25: when execvp fails the child writes a diagnostic and exits with a
\* non-zero status; a supervisor whose wait succeeded observes a normal
\* exit with that status; the supervisor returns non-zero.
C25_ExecFailureReported ==
    ExecFailed =>
      /\ ExecDiagnostic
      /\ WIFEXITED(zstatus) /\ WEXITSTATUS(zstatus) # 0
      /\ pc = "exited" => ret # EXIT_SUCCESS
      /\ (pc = "exited" /\ status # NoStatus) =>
           /\ WIFEXITED(status) /\ WEXITSTATUS(status) = WEXITSTATUS(zstatus)
           /\ Logged(log, "Process exited normally")
           /\ ret = WEXITSTATUS(status)

C25_Witness ==
    /\ ExecFailed /\ pc = "exited" /\ status = W_EXITCODE(EXIT_FAILURE, 0)
    /\ ret = EXIT_FAILURE /\ ExecDiagnostic

---------------------------------------------------------------------------
(* C26 *)

\* The child has reached its execvp.
ExecAttempted == \E i \in DOMAIN trace : trace[i].call = "execvp"
\* What the child branch writes in its limits, network and exec stages.
ChildStageMsgs ==
    {"Child process created", "Failed to apply resource limits",
     "Seccomp network filter installed",
     "Warning: Unable to install network filter",
     "Proceeding without kernel-level network restriction",
     "Failed to execute"}
      \cup {LimitSteps(NoLimits)[k].ok : k \in 1..4}
      \cup {LimitSteps(NoLimits)[k].err : k \in 1..4}
\* The child wrote something that belongs to none of those stages.
JailWarningEmitted ==
    \E r \in Range(log) : r.who = "child" /\ r.msg \notin ChildStageMsgs
\* The child made a chdir / chroot call.
ChrootAttempted ==
    \E i \in DOMAIN trace : trace[i].call \in {"chdir_jail", "chroot", "chdir_root"}

\* C26: a child that was asked for a jail and reaches execvp without having
\* chrooted has emitted a warning about the jail; the jail never ends the
\* child before execvp.
C26_JailSkippedWithWarning ==
    /\ (jail_enabled # 0 /\ ExecAttempted /\ ~ChrootAttempted) => JailWarningEmitted
    /\ (jail_enabled # 0 /\ child = "zombie" /\ ~ExecAttempted) =>
         Logged(log, "Failed to apply resource limits")

\* The part of C26 that the program keeps: the jail never ends the child.
JailNeverAbortsChild ==
    (jail_enabled # 0 /\ child = "zombie" /\ ~ExecAttempted) =>
       Logged(log, "Failed to apply resource limits")

---------------------------------------------------------------------------
(* C27 *)

\* C27: a target ended by the kernel at the CPU limit installed with
\* soft = hard = N is terminated by SIGXCPU, and a supervisor whose wait
\* succeeded reports the CPU-limit violation and returns non-zero.
C27_CpuLimitReported ==
    (cpu_expired /\ pc = "exited" /\ status # NoStatus) =>
       /\ TerminatedBy1(SIGXCPU)
       /\ CpuViolationReported1
       /\ ret # EXIT_SUCCESS

\* The part of C27 that the program keeps: the run is reported as ended by
\* a signal and the supervisor returns non-zero.
CpuExpiryFails ==
    (cpu_expired /\ pc = "exited" /\ status # NoStatus) =>
       TerminatedBySignal1 /\ ret # EXIT_SUCCESS


---------------------------------------------------------------------------
(* C28 *)

\* The bracketed log lines the supervisor and the child (before its exec)
\* have written on standard output.
StdoutLines2 == {r \in Range(log2) : r.fd = "stdout"}

\* C28: with --json nothing but the JSON object is written on standard
\* output by the supervisor and the pre-exec child: no bracketed log line,
\* and never a second object.
C28_JsonStdoutIsOneObject ==
    config.json_output # 0 => (StdoutLines2 = {} /\ Len(json2) <= 1)

\* The part of C28 that the program keeps: the supervisor itself writes no
\* log line on standard output with --json, and at most one object.
SupervisorStdoutIsJson ==
    config.json_output # 0 =>
       /\ \A r \in StdoutLines2 : r.who # "sup"
       /\ Len(json2) <= 1

---------------------------------------------------------------------------
(* C29 *)

\* sandbox_v2 has returned a failure from main after starting a run.
FailedRun2 == pc2 = "exited" /\ ret2 # EXIT_SUCCESS

\* C29: with --json every failing run has emitted a Result whose success
\* is false.
C29_FailingRunEmitsResult ==
    (config.json_output # 0 /\ FailedRun2) =>
       (Len(json2) = 1 /\ ~json2[1].success)

\* The part of C29 that the program keeps: a run whose status word was
\* analysed emits one Result, and it says success exactly when main
\* returns EXIT_SUCCESS.
AnalysedRunEmitsResult ==
    (config.json_output # 0 /\ Analysed2) =>
       (Len(json2) = 1 /\ (json2[1].success <=> ret2 = EXIT_SUCCESS))

---------------------------------------------------------------------------
(* C30 *)

\* C30: an emitted Result carries exit_code exactly when the child exited
\* normally; for a child ended by a signal it carries signal_number and
\* signal_name and no exit_code.
C30_ExitCodeIffExitedNormally ==
    (Completed2 /\ json2 # <<>>) =>
       /\ json2[1].has_exit_code <=> WIFEXITED(status2)
       /\ WIFSIGNALED(status2) =>
            (json2[1].has_signal_number /\ ~json2[1].has_exit_code)

\* The part of C30 that the program keeps: the signal fields are written
\* exactly for a child ended by a signal, and exit_code is the child's
\* exit status when it exited normally.
SignalFieldsIffSignalled ==
    (Completed2 /\ json2 # <<>>) =>
       /\ json2[1].has_signal_number <=> WIFSIGNALED(status2)
       /\ WIFSIGNALED(status2) => json2[1].signal_number = WTERMSIG(status2)
       /\ WIFEXITED(status2) => json2[1].exit_code = WEXITSTATUS(status2)


---------------------------------------------------------------------------
(* C31 *)

\* The logs of the sessions that have finished, wherever they now live.
FinishedLogs == {f \in DOMAIN m_files : f # m_active}
IsPrefix(a, b) == Len(a) <= Len(b) /\ SubSeq(b, 1, Len(a)) = a
\* start first, stop last, only samples between them, in timestamp order.
WellFormedLog(c) ==
    /\ Len(c) >= 2
    /\ c[1].event = "start" /\ c[Len(c)].event = "stop"
    /\ \A i \in 2..(Len(c) - 1) : c[i].event = "sample"
    /\ \A i, j \in 2..(Len(c) - 1) : i <= j => c[i].ts <= c[j].ts
LogsWellFormed == \A f \in FinishedLogs : WellFormedLog(m_files[f].content)
\* A step only ever adds records at the end of a log.
LogsOnlyGrow ==
    \A f \in DOMAIN m_files :
       IsPrefix(m_files[f].content, m_files'[f].content)

\* C31: the log of every finished session is one start record, then samples
\* with non-decreasing timestamps, then one stop record, and no step
\* rewrites a record that was written.
C31_MonitorLogWellFormed == []LogsWellFormed /\ [][LogsOnlyGrow]_vars

C31_Witness ==
    \E f \in FinishedLogs :
       /\ Len(m_files[f].content) = 4
       /\ m_files[f].content[2].ts < m_files[f].content[3].ts
       /\ m_files[f].content[4].samples = 2

---------------------------------------------------------------------------
(* C32 *)

\* The k files of a set with the oldest modification times.
Oldest(files, k) == {f \in files : Cardinality({g \in files : g < f}) < k}
\* rotate_logs has run over M files with a retention N < M.
RotatedOverMore == m_report.ran /\ m_report.keep < Cardinality(m_report.before)
ToArchive == Cardinality(m_report.before) - m_report.keep

\* C32: rotate_logs over M files with retention N < M archives exactly the
\* M-N oldest and leaves exactly the N newest; a dry run reports the same
\* M-N and changes nothing.
C32_RotationArchivesAllOlder ==
    RotatedOverMore =>
       /\ Cardinality(m_report.archived) = ToArchive
       /\ m_report.archived = Oldest(m_report.before, ToArchive)
       /\ ~m_report.dry_run =>
            /\ m_report.after = m_report.before \ m_report.archived
            /\ Cardinality(m_report.after) = m_report.keep
            /\ m_report.archive_after = m_report.archive_before \cup m_report.archived
       /\ m_report.dry_run =>
            /\ m_report.after = m_report.before
            /\ m_report.archive_after = m_report.archive_before

\* C32 as amended: the M-N oldest files are archived or, when open
\* elsewhere, skipped and left in place; with none skipped exactly M-N are
\* archived and exactly the N newest remain.
C32_RotationArchivesOrSkips ==
    RotatedOverMore =>
       /\ m_report.archived \cup m_report.skipped = Oldest(m_report.before, ToArchive)
       /\ m_report.archived \cap m_report.skipped = {}
       /\ ~m_report.dry_run =>
            /\ m_report.after = m_report.before \ m_report.archived
            /\ m_report.archive_after = m_report.archive_before \cup m_report.archived
       /\ m_report.dry_run =>
            /\ m_report.after = m_report.before
            /\ m_report.archive_after = m_report.archive_before
       /\ m_report.skipped = {} =>
            /\ Cardinality(m_report.archived) = ToArchive
            /\ ~m_report.dry_run => Cardinality(m_report.after) = m_report.keep

C32_Witness ==
    /\ RotatedOverMore /\ ~m_report.dry_run /\ m_report.skipped = {}
    /\ Cardinality(m_report.before) = 2 /\ m_report.keep = 1
    /\ Cardinality(m_report.archived) = 1
    /\ m_report.after = {2} /\ Archive = {1}


---------------------------------------------------------------------------
(* C33 *)

\* printf("%d") / printf("%ld") of a value >= 0
RECURSIVE Fmt_d(_)
Fmt_d(n) ==
    IF n < 10 THEN <<Digits[n + 1]>>
    ELSE Fmt_d(n \div 10) \o <<Digits[(n % 10) + 1]>>

\* The words of what main echoes for a policy: the lines of
\* log_resource_limits, then the --no-net and the jail record of main
\* (log_message puts "[Sandbox hh:mm:ss] " before them).
EchoLimits(lim) ==
    IF lim.cpu_seconds > 0 \/ lim.memory_mb > 0
         \/ lim.max_processes > 0 \/ lim.max_file_mb > 0
      THEN <<<<"[", "S", "a", "n", "d", "b", "o", "x", "]">>, <<"A", "c", "t", "i", "v", "e">>, <<"r", "e", "s", "o", "u", "r", "c", "e">>, <<"l", "i", "m", "i", "t", "s", ":">>>>
             \o (IF lim.cpu_seconds > 0
                   THEN <<<<"C", "P", "U">>, <<"T", "i", "m", "e", ":">>, Fmt_d(lim.cpu_seconds),
                          <<"s", "e", "c", "o", "n", "d", "s">>>>
                   ELSE <<>>)
             \o (IF lim.memory_mb > 0
                   THEN <<<<"M", "e", "m", "o", "r", "y", ":">>, Fmt_d(lim.memory_mb), <<"M", "B">>>>
                   ELSE <<>>)
             \o (IF lim.max_processes > 0
                   THEN <<<<"P", "r", "o", "c", "e", "s", "s", "e", "s", ":">>, Fmt_d(lim.max_processes)>>
                   ELSE <<>>)
             \o (IF lim.max_file_mb > 0
                   THEN <<<<"F", "i", "l", "e">>, <<"S", "i", "z", "e", ":">>, Fmt_d(lim.max_file_mb),
                          <<"M", "B">>>>
                   ELSE <<>>)
      ELSE <<<<"[", "S", "a", "n", "d", "b", "o", "x", "]">>, <<"N", "o">>, <<"r", "e", "s", "o", "u", "r", "c", "e">>, <<"l", "i", "m", "i", "t", "s">>, <<"a", "p", "p", "l", "i", "e", "d">>, <<"(", "u", "n", "l", "i", "m", "i", "t", "e", "d", ")">>>>
LogStamp == <<<<"[", "S", "a", "n", "d", "b", "o", "x">>, <<"h", "h", ":", "m", "m", ":", "s", "s", "]">>>>
PolicyEcho(lim, nonet, jail, path) ==
    EchoLimits(lim)
      \o (IF nonet # 0
            THEN LogStamp \o <<<<"N", "e", "t", "w", "o", "r", "k">>, <<"r", "e", "s", "t", "r", "i", "c", "t", "i", "o", "n">>, <<"r", "e", "q", "u", "e", "s", "t", "e", "d">>, <<"(", "-", "-", "n", "o", "-", "n", "e", "t", ")">>>>
            ELSE <<>>)
      \o (IF jail # 0
            THEN LogStamp \o <<<<"J", "a", "i", "l">>, <<"r", "e", "q", "u", "e", "s", "t", "e", "d">>, <<"a", "t">>>> \o <<path>>
            ELSE <<>>)

\* The policy parse_arguments returns for the echo of the current policy.
Reparsed == parse_arguments(PolicyEcho(limits, disable_network, jail_enabled, jail_path))
SamePolicy(r) ==
    /\ r.end = "ok"
    /\ r.limits = limits
    /\ r.jail_enabled = jail_enabled /\ r.disable_network = disable_network
    /\ r.jail_path = (IF jail_enabled # 0 THEN jail_path ELSE <<>>)

\* C33: once main has echoed the policy it parsed, parsing the echo again
\* gives the same policy.
C33_EchoRoundTrip == pc = "validated" => SamePolicy(Reparsed)

\* What holds instead: the echo never begins with an option, so parsing it
\* always gives the empty policy.
EchoParsesToNoPolicy ==
    pc = "validated" =>
       /\ Reparsed.end = "ok" /\ Reparsed.cmd_start_index = 1
       /\ Reparsed.limits = NoLimits
       /\ Reparsed.jail_enabled = 0 /\ Reparsed.disable_network = 0


---------------------------------------------------------------------------
(* C34 *)

\* setup_chroot_jail has returned.
JailDone == h_call.fn = "setup_chroot_jail" /\ h_result.done
JailOrder == << <<"chdir_jail", "jail_path">>, <<"chroot", ".">>, <<"chdir_root", "/">> >>

\* C34: setup_chroot_jail calls chdir(jail), chroot("."), chdir("/") in that
\* order; the first call that fails is its last call and it returns an
\* error; it returns success only after all three succeeded.
C34_JailStepsInOrder ==
    JailDone =>
       LET cs == h_result.calls
           n == Len(cs)
       IN  /\ n \in 1..3
           /\ \A i \in 1..n :
                /\ <<cs[i].call, cs[i].arg>> = JailOrder[i]
                /\ cs[i].ok <=> cs[i].call \notin h_call.fails
           /\ \A i \in 1..(n - 1) : cs[i].ok
           /\ h_result.rc = 0 <=> (n = 3 /\ cs[3].ok)
           /\ h_result.rc # 0 <=> ~cs[n].ok
           /\ h_result.root = "jail" <=> (n >= 2 /\ cs[2].ok)

C34_Witness ==
    /\ JailDone /\ h_call.fails = {"chroot", "chdir_root"}
    /\ Len(h_result.calls) = 2 /\ h_result.rc # 0

---------------------------------------------------------------------------
(* C35 *)

\* A conversion of apply_resource_limits has been computed.
ConvertDone == h_call.fn \in {"memory_mb", "max_file_mb"} /\ h_result.done
\* M * 2^20 without any loss, on six limbs: M shifted by one limb and by
\* four more bits.
ExactBytes(mb) == <<0>> \o MulLimbs(mb \o <<0>>, 16, 1, 0)
\* a <= b for two numbers of the same number of limbs
RECURSIVE LimbsLE(_, _, _)
LimbsLE(a, b, i) ==
    IF i = 0 THEN TRUE
    ELSE IF a[i] # b[i] THEN a[i] < b[i]
    ELSE LimbsLE(a, b, i - 1)
NumLE(a, b) == LimbsLE(a, b, Len(a))
\* M < 2^44, the values whose product with 2^20 fits 64 bits
FitsRlim(mb) == mb[4] = 0 /\ mb[3] < 4096

\* C35: the limit handed to setrlimit is M * 2^20 exactly for every accepted
\* M, and a larger M never gives a smaller limit.
C35_BytesExact ==
    ConvertDone =>
       /\ h_result.rlim \o <<0, 0>> = ExactBytes(h_call.mb)
       /\ h_result.rlim2 \o <<0, 0>> = ExactBytes(h_call.mb2)
       /\ NumLE(h_call.mb, h_call.mb2) => NumLE(h_result.rlim, h_result.rlim2)

\* What holds instead: the limit is exact, and the order is kept, for the
\* values below 2^44.
BytesExactBelowWrap ==
    ConvertDone =>
       /\ FitsRlim(h_call.mb) => h_result.rlim \o <<0, 0>> = ExactBytes(h_call.mb)
       /\ (FitsRlim(h_call.mb) /\ FitsRlim(h_call.mb2) /\ NumLE(h_call.mb, h_call.mb2))
            => NumLE(h_result.rlim, h_result.rlim2)


---------------------------------------------------------------------------
(* C36 *)

\* C36 (as claimed): in every Result of sandbox_v2.c, timeout_exceeded set
\* implies terminated_by_signal set with signal_number SIGKILL.
\* (Stated for the runs whose last wait returned the status of the child.)
C36_TimeoutMeansKilled ==
    Completed2 =>
      /\ result.timeout_exceeded # 0
           => (result.terminated_by_signal # 0 /\ result.signal_number = SIGKILL)
      /\ \A j \in DOMAIN json2 :
           json2[j].limit_exceeded.timeout
             => (json2[j].terminated_by_signal /\ json2[j].signal_number = SIGKILL)

\* What holds instead: timeout_exceeded is set only together with the kill
\* call, whatever the child died of.
TimeoutMeansKillSent ==
    (pc2 # "start" /\ result.timeout_exceeded # 0) =>
      (killed2 /\ Calls2Of("kill", "SIGKILL") # {})


---------------------------------------------------------------------------
(* C37 *)

\* run_sandbox returned 0: it read the end time and analysed the status.
ReturnedSuccess2 == pc2 = "exited" /\ Calls2Of("clock_gettime", "end_time") # {}
\* The waits of the supervisor that returned the child's pid.
Reaps2 == {i \in DOMAIN calls2 : calls2[i].call = "waitpid" /\ calls2[i].ret > 0}
\* Every kill is sent before any wait has returned the child.
KillOnlyWhileUnreaped ==
    \A k \in Calls2Of("kill", "SIGKILL") :
        /\ \A i \in Reaps2 : k < i
        /\ k > 1 /\ calls2[k - 1] = SupCall("waitpid", "WNOHANG", 0)

\* C37 (as claimed): when run_sandbox returns success the child has been
\* reaped exactly once by the supervisor, and SIGKILL is never sent after
\* the supervisor has reaped the child.
C37_ReapedExactlyOnce ==
    /\ ReturnedSuccess2 => (child2 = "reaped" /\ Cardinality(Reaps2) = 1)
    /\ KillOnlyWhileUnreaped

\* What holds instead: no success return after two reaps, and exactly one
\* reap when the last wait returned the status of a terminated child.
ReapedOnceWhenWaitSucceeds ==
    /\ ReturnedSuccess2 => Cardinality(Reaps2) <= 1
    /\ (ReturnedSuccess2 /\ Terminated(status2)
          /\ \A i \in DOMAIN calls2 : calls2[i].call = "waitpid" => calls2[i].ret >= 0)
         => (child2 = "reaped" /\ Cardinality(Reaps2) = 1)


---------------------------------------------------------------------------
(* C38 *)

\* A wait of the supervisor reported an error.
WaitFailed(cs) == \E i \in DOMAIN cs : cs[i].call = "waitpid" /\ cs[i].ret = -1
\* The v2 supervisor has left its wait (poll loop, kill and wait, or the
\* blocking wait) after a successful fork.
LeftWait2 == pc2 \in {"analyze", "exited"} /\ child2 # "none"

\* C38 (as claimed): when either supervisor exits after a successful fork
\* and no wait reported an error, the child has terminated and been reaped;
\* the poll loop of sandbox_v2.c is left without a wait error only with the
\* child ended or killed.
C38_ExitOnlyAfterReap ==
    /\ (pc = "exited" /\ child # "none" /\ ~WaitFailed(calls)) => child = "reaped"
    /\ (pc2 = "exited" /\ child2 # "none" /\ ~WaitFailed(calls2)) => child2 = "reaped"
    /\ (LeftWait2 /\ ~WaitFailed(calls2)) => (~Running2 \/ killed2)

\* What holds instead: the child has been reaped or the wait returned the
\* status of a stopped child; the poll loop part holds as claimed.
ExitAfterReapOrStop ==
    /\ (pc = "exited" /\ child # "none" /\ ~WaitFailed(calls))
         => (child = "reaped" \/ (child = "stopped" /\ ~Terminated(status)))
    /\ (pc2 = "exited" /\ child2 # "none" /\ ~WaitFailed(calls2))
         => (child2 = "reaped" \/ (child2 = "stopped" /\ ~Terminated(status2)))
    /\ (LeftWait2 /\ ~WaitFailed(calls2)) => (~Running2 \/ killed2)


---------------------------------------------------------------------------
(* C39 *)

\* The polls of the timeout loop made so far.
Polls2 == Calls2Of("waitpid", "WNOHANG")
\* run_sandbox has returned and none of its polls found the child ended.
ReturnedUnended2 ==
    /\ pc2 = "exited" /\ child2 # "none" /\ config.timeout_seconds > 0
    /\ ~WaitFailed(calls2)
    /\ \A i \in Polls2 : calls2[i].ret = 0

\* C39: with a timeout T > 0 run_sandbox eventually returns, whatever the
\* target does; it makes at most T polls, and when no poll found the child
\* ended and no wait failed, it has made T polls, killed and reaped the
\* child and produced a Result.
C39_TimeoutRunReturns ==
    /\ (config.timeout_seconds > 0) ~> (pc2 = "exited")
    /\ [](Cardinality(Polls2) <= config.timeout_seconds)
    /\ [](ReturnedUnended2 =>
            /\ Cardinality(Polls2) = config.timeout_seconds
            /\ killed2 /\ child2 = "reaped"
            /\ result.timeout_exceeded # 0
            /\ ReturnedSuccess2
            /\ config.json_output # 0 => Len(json2) = 1)

C39_Witness ==
    /\ ReturnedUnended2 /\ config.timeout_seconds > 1
    /\ status2 = SIGKILL /\ result.signal_number = SIGKILL


---------------------------------------------------------------------------
(* C40 *)

\* The records the child wrote on standard output that the supervisor
\* wrote as well.
EmittedTwice2 ==
    {i \in DOMAIN log2 :
        /\ log2[i].who = "child" /\ log2[i].fd = "stdout"
        /\ \E j \in DOMAIN log2 : log2[j].who = "sup" /\ log2[j].msg = log2[i].msg}

\* C40 (as claimed): every record the supervisor wrote on standard output
\* before fork was flushed before fork; the child holds no copy of it and
\* never emits it a second time.
C40_NoDuplicateOutput ==
    /\ cbuf2 = <<>>
    /\ EmittedTwice2 = {}

\* sandbox.c: whatever the buffering, nothing is left in the buffer at fork.
MainFlushedBeforeFork ==
    \A full \in BOOLEAN, clock_ok \in BOOLEAN :
        Unflushed(MainPreForkWrites(clock_ok), full, <<>>) = <<>>

\* What holds for sandbox_v2.c: on a terminal nothing is emitted twice, and
\* only the command line is ever emitted twice.
OnlyCommandLineTwice ==
    /\ \A i \in EmittedTwice2 : log2[i].msg = "Executing"
    /\ config.json_output # 0 => (cbuf2 = <<>> /\ EmittedTwice2 = {})

===========================================================================
